---- MODULE Spec2Model ----
(***************************************************************************)
(* Model of the local-space analytics client (createLocalSpaceAnalytics-   *)
(* Client): the persistent event queue, the flush scheduler with its       *)
(* in-flight guard, the lifecycle (beacon) hooks, the report-time and      *)
(* batch-time secure-endpoint gates and the issue aggregates.              *)
(*                                                                         *)
(* JavaScript runs the client on one thread: every public call, timer      *)
(* callback, DOM listener and promise continuation runs to completion.     *)
(* Each of them is one action here.  The only suspension point is the      *)
(* awaited transport call of flush(); an outstanding call is an element of *)
(* `calls` and its continuation is the action Complete.                    *)
(***************************************************************************)
EXTENDS Integers, Sequences, FiniteSets, TLC

\* Number of records the client may create in one behaviour (caps nextId).
MaxTracks == 3

\* Number of error reports in one behaviour of the issue-aggregation scenarios.
MaxReports == 4

\* Number of clients constructed, one after the other, over the same storage.
MaxClients == 3

\* Longest array found in storage before the first client is constructed.
MaxStored == 2

DEFAULT_FLUSH_INTERVAL_MS == 5000
DEFAULT_BATCH_SIZE == 20
DEFAULT_MAX_QUEUE_SIZE == 500
DEFAULT_ERROR_MESSAGE_LENGTH == 240
DEFAULT_ERROR_STACK_LENGTH == 1800
DEFAULT_ERROR_COMPONENT_STACK_LENGTH == 1800
DEFAULT_ERROR_CONTEXT_DEPTH == 4
DEFAULT_ERROR_CONTEXT_BREADTH == 20
DEFAULT_ERROR_TAG_COUNT == 10
DEFAULT_ERROR_THRESHOLD_COUNT == 5
DEFAULT_ERROR_REDACT_KEYS ==
    { "email", "phone", "name", "address", "token", "password", "secret", "cookie",
      "session", "auth", "ssn", "dob", "user" }
DEFAULT_ERROR_THRESHOLD_WINDOW_MS == 300000
MIN_ERROR_THRESHOLD_COUNT == 1
MIN_ERROR_THRESHOLD_WINDOW_MS == 1000
DEFAULT_STORAGE_KEY_PREFIX == "plasius.analytics.local-space.queue"
LOCALHOST_HOSTS == {"localhost", "127.0.0.1", "::1"}

VARIABLES
    host,                    \* the host environment: window/document present, storage throwing,
                             \* Date.now(), ids createId will still hand out, session ids made,
                             \* whether the history of deliveries and evictions is kept,
                             \* whether onThresholdReached throws, and the closure state
                             \* of a second client created on the same page (peer)
    resolvedConfig,          \* let resolvedConfig
    queue,                   \* let queue
    storage,                 \* window.localStorage: storage key -> serialized queue
    flushTimer,              \* let flushTimer: 0 (null) or the interval it was armed with
    timers,                  \* setInterval timers the client has armed and not cleared
    isFlushing,              \* let isFlushing
    flushQueuedAfterCurrent, \* let flushQueuedAfterCurrent
    isDestroyed,             \* let isDestroyed
    issueAggregates,         \* const issueAggregates: fingerprint -> IssueAggregateState
    hooksAttached,           \* visibilitychange/pagehide listeners registered
    calls,                   \* transport calls awaited by a flush(), with the batch each captured
    nextId,                  \* createId("event"): the next fresh record id
    effects                  \* what the last operation did to its collaborators

vars == <<host, resolvedConfig, queue, storage, flushTimer, timers, isFlushing,
          flushQueuedAfterCurrent, isDestroyed, issueAggregates, hooksAttached,
          calls, nextId, effects>>

----------------------------------------------------------------------------
\* Sequences as JavaScript arrays.

Range(s) == {s[i] : i \in 1..Len(s)}

Min(a, b) == IF a < b THEN a ELSE b

Max(a, b) == IF a > b THEN a ELSE b

\* array.slice(n), n >= 0
SliceFrom(s, n) == SubSeq(s, n + 1, Len(s))

\* array.slice(0, n), n >= 0
SliceTo(s, n) == SubSeq(s, 1, Min(n, Len(s)))

\* array.slice(-n), n > 0
SliceLast(s, n) == SubSeq(s, Max(Len(s) - n, 0) + 1, Len(s))

RemoveAt(s, i) == SubSeq(s, 1, i - 1) \o SubSeq(s, i + 1, Len(s))

\* obj.field !== undefined, for configuration objects given as partial records
Has(obj, field) == field \in DOMAIN obj

----------------------------------------------------------------------------
\* Strings the model distinguishes.

Channels == {"frontend", "backend"}
Runtimes == {"browser", "server"}
Sources == {"app", "my app"}
BlankStrings == {"", " "}

\* String.prototype.trim on the modelled strings
Trim(s) == IF s \in BlankStrings THEN "" ELSE s

\* new URL(endpoint, base) on the modelled endpoints; parses |-> FALSE when it throws
ParseUrl(endpoint) ==
    CASE endpoint = "https://example.com/collect" ->
           [parses |-> TRUE, protocol |-> "https:", hostname |-> "example.com"]
      [] endpoint = "http://example.com" ->
           [parses |-> TRUE, protocol |-> "http:", hostname |-> "example.com"]
      [] endpoint = "http://localhost:8787/collect" ->
           [parses |-> TRUE, protocol |-> "http:", hostname |-> "localhost"]
      [] endpoint = "http://[" ->
           [parses |-> FALSE, protocol |-> "", hostname |-> ""]
      [] OTHER ->
           [parses |-> TRUE, protocol |-> "https:", hostname |-> "localhost"]

StartsWithSlash(endpoint) == endpoint \in {"/collect"}

isSecureEndpoint(endpoint) ==
    LET trimmedEndpoint == Trim(endpoint)
        parsedUrl == ParseUrl(trimmedEndpoint)
    IN  IF trimmedEndpoint = "" THEN FALSE
        ELSE IF StartsWithSlash(trimmedEndpoint) THEN TRUE
        ELSE IF ~parsedUrl.parses THEN FALSE
        ELSE IF parsedUrl.protocol = "https:" THEN TRUE
        ELSE parsedUrl.protocol = "http:" /\ parsedUrl.hostname \in LOCALHOST_HOSTS

----------------------------------------------------------------------------
\* Config resolver.

isBrowserEnvironment == host.browser

\* A JavaScript number is an integer of the model, one of the strings of
\* NonFiniteNumbers, or a pair <<numerator, denominator>> of Fractions.
NonFiniteNumbers == {"NaN", "Infinity", "-Infinity"}

Fractions == {<<n, 2>> : n \in {-3, 1, 5}}

\* how the numbers that are not integers are written
NonFiniteText == {ToString(n) : n \in NonFiniteNumbers}

FractionText == {ToString(f) : f \in Fractions}

\* Number.isFinite of the number written `text`
isFinite(text) == text \notin NonFiniteText

\* Math.floor of the finite number `value`, written `text`
floor(value, text) == IF text \in FractionText THEN value[1] \div value[2] ELSE value

\* mutant: toPositiveInteger accepts a value whose floor is zero
toPositiveInteger_AcceptsZero(value, fallback) ==
    LET text == ToString(value)
        rounded == floor(value, text)
    IN  IF ~isFinite(text) THEN fallback
        ELSE IF rounded >= 0 THEN rounded ELSE fallback

\* an option that is undefined is the integer 0 here: both yield the fallback
toPositiveInteger(value, fallback) ==
    LET text == ToString(value)
        rounded == floor(value, text)
    IN  IF ~isFinite(text) THEN fallback
        ELSE IF rounded > 0 THEN rounded ELSE fallback

toNumberWithMinimum(value, fallback, minimum) ==
    Max(toPositiveInteger(value, fallback), minimum)

resolveRuntime(config, previous) ==
    IF Has(config, "runtime") THEN config.runtime
    ELSE IF Has(previous, "runtime") THEN previous.runtime
    ELSE IF isBrowserEnvironment THEN "browser" ELSE "server"

resolveChannel(config, runtime, previous) ==
    IF Has(config, "channel") THEN config.channel
    ELSE IF Has(previous, "channel") THEN previous.channel
    ELSE IF runtime = "server" THEN "backend" ELSE "frontend"

sanitizeStorageSourceSegment(source) ==
    LET normalized == CASE Trim(source) = "App" -> "app"
                        [] Trim(source) = "my app" -> "my-app"
                        [] OTHER -> Trim(source)
    IN  IF normalized = "" THEN "unknown-source" ELSE normalized

\* mutant: the default storage key does not depend on the channel
buildDefaultStorageKey_IgnoresChannel(source, channel) ==
    <<DEFAULT_STORAGE_KEY_PREFIX, "frontend", sanitizeStorageSourceSegment(source)>>

\* Storage keys are tuples of name segments; <<>> is the empty string.
buildDefaultStorageKey(source, channel) ==
    <<DEFAULT_STORAGE_KEY_PREFIX, channel, sanitizeStorageSourceSegment(source)>>

resolveStorageKey(config, source, channel, previous) ==
    LET defaultStorageKey == buildDefaultStorageKey(source, channel)
    IN  IF Has(config, "storageKey") /\ config.storageKey # <<>> THEN config.storageKey
        ELSE IF ~Has(previous, "storageKey") THEN defaultStorageKey
        ELSE IF previous.storageKey = buildDefaultStorageKey(previous.source, previous.channel)
             THEN defaultStorageKey
             ELSE previous.storageKey

\* config?.x ?? previous?.x ?? fallback, for the fields of errorReporting
Coalesce(config, previous, field, fallback) ==
    IF Has(config, field) THEN config[field]
    ELSE IF Has(previous, field) THEN previous[field]
    ELSE fallback

\* normalizeRedactKeys; the keys given in the model are trimmed and in lower
\* case already, and a set has no duplicates
normalizeRedactKeys(keys, previousKeys) ==
    LET values == IF Has(keys, "redactKeys") THEN keys.redactKeys
                  ELSE IF Has(previousKeys, "redactKeys") THEN previousKeys.redactKeys
                  ELSE DEFAULT_ERROR_REDACT_KEYS
        normalized == {value \in values : value # ""}
    IN  IF normalized = {} THEN DEFAULT_ERROR_REDACT_KEYS ELSE normalized

resolveErrorReportingConfig(config, previous) ==
    [ enabled |-> Coalesce(config, previous, "enabled", TRUE),
      secureEndpointOnly |-> Coalesce(config, previous, "secureEndpointOnly", TRUE),
      maxMessageLength |->
          toNumberWithMinimum(Coalesce(config, previous, "maxMessageLength", 0),
                              DEFAULT_ERROR_MESSAGE_LENGTH, 16),
      maxStackLength |->
          toNumberWithMinimum(Coalesce(config, previous, "maxStackLength", 0),
                              DEFAULT_ERROR_STACK_LENGTH, 32),
      maxComponentStackLength |->
          toNumberWithMinimum(Coalesce(config, previous, "maxComponentStackLength", 0),
                              DEFAULT_ERROR_COMPONENT_STACK_LENGTH, 32),
      maxContextDepth |->
          toNumberWithMinimum(Coalesce(config, previous, "maxContextDepth", 0),
                              DEFAULT_ERROR_CONTEXT_DEPTH, 1),
      maxContextBreadth |->
          toNumberWithMinimum(Coalesce(config, previous, "maxContextBreadth", 0),
                              DEFAULT_ERROR_CONTEXT_BREADTH, 1),
      maxTagCount |->
          toNumberWithMinimum(Coalesce(config, previous, "maxTagCount", 0),
                              DEFAULT_ERROR_TAG_COUNT, 1),
      thresholdCount |->
          toNumberWithMinimum(Coalesce(config, previous, "thresholdCount", 0),
                              DEFAULT_ERROR_THRESHOLD_COUNT, MIN_ERROR_THRESHOLD_COUNT),
      thresholdWindowMs |->
          toNumberWithMinimum(Coalesce(config, previous, "thresholdWindowMs", 0),
                              DEFAULT_ERROR_THRESHOLD_WINDOW_MS,
                              MIN_ERROR_THRESHOLD_WINDOW_MS),
      redactKeys |-> normalizeRedactKeys(config, previous) ]

\* createId(prefix) of the n-th client constructed on this host: a fresh id
createId(prefix, n) == <<prefix, n>>

resolveSessionId(config, previous) ==
    IF Has(config, "sessionId") /\ Trim(config.sessionId) # "" THEN Trim(config.sessionId)
    ELSE IF Has(previous, "sessionId") THEN previous.sessionId
    ELSE createId("session", host.sessions)

resolvedSource(config, previous) ==
    Trim(IF Has(config, "source") THEN config.source
         ELSE IF Has(previous, "source") THEN previous.source
         ELSE "")

\* mutant: resolveConfig accepts an empty source
resolveConfigThrows_Never(config, previous) == FALSE

\* resolveConfig throws exactly when the resolved source is empty.
resolveConfigThrows(config, previous) == resolvedSource(config, previous) = ""

resolveConfig(config, previous) ==
    LET source == resolvedSource(config, previous)
        runtime == resolveRuntime(config, previous)
        channel == resolveChannel(config, runtime, previous)
        endpointCandidate == IF Has(config, "endpoint") THEN config.endpoint
                             ELSE IF Has(previous, "endpoint") THEN previous.endpoint
                             ELSE ""
    IN  [ source |-> source,
          endpoint |-> Trim(endpointCandidate),
          channel |-> channel,
          runtime |-> runtime,
          sessionId |-> resolveSessionId(config, previous),
          injectChannelContext |-> Coalesce(config, previous, "injectChannelContext", TRUE),
          enabled |-> Coalesce(config, previous, "enabled", TRUE),
          defaultContext |->
              LET earlier == IF Has(previous, "defaultContext")
                             THEN previous.defaultContext ELSE <<>>
                  given == IF Has(config, "defaultContext")
                           THEN config.defaultContext ELSE <<>>
              IN  [k \in DOMAIN earlier \cup DOMAIN given |->
                      IF k \in DOMAIN given THEN given[k] ELSE earlier[k]],
          flushIntervalMs |->
              toPositiveInteger(Coalesce(config, previous, "flushIntervalMs", 0),
                                DEFAULT_FLUSH_INTERVAL_MS),
          batchSize |->
              toPositiveInteger(Coalesce(config, previous, "batchSize", 0),
                                DEFAULT_BATCH_SIZE),
          maxQueueSize |->
              toPositiveInteger(Coalesce(config, previous, "maxQueueSize", 0),
                                DEFAULT_MAX_QUEUE_SIZE),
          storageKey |-> resolveStorageKey(config, source, channel, previous),
          errorReporting |->
              resolveErrorReportingConfig(
                  IF Has(config, "errorReporting") THEN config.errorReporting ELSE <<>>,
                  IF Has(previous, "errorReporting") THEN previous.errorReporting ELSE <<>>) ]

\* { ...resolvedConfig, ...nextConfig, source: nextConfig.source ?? resolvedConfig.source }
SpreadConfig(resolved, nextConfig) ==
    [f \in DOMAIN resolved \cup DOMAIN nextConfig |->
        IF f \in DOMAIN nextConfig THEN nextConfig[f] ELSE resolved[f]]

----------------------------------------------------------------------------
\* Persistent queue.

\* localStorage.getItem of a key never written (null)
Absent == [json |-> "null", items |-> <<>>]

\* record.error of a record without error details (undefined)
NoFingerprint == <<>>

\* A JSON value: its type and its content.
Json(type, value) == [t |-> type, v |-> value]

\* JSON.stringify of one record: a property whose value is undefined is left out
Serialize(record) ==
    Json("object",
         [f \in DOMAIN record \ (IF record.error = NoFingerprint THEN {"error"} ELSE {}) |->
             CASE f = "timestamp" -> Json("number", record[f])
               [] f \in {"context", "error"} -> Json("object", record[f])
               [] OTHER -> Json("string", record[f])])

\* JSON.stringify(queue)
Stringify(records) ==
    [json |-> "array", items |-> [i \in 1..Len(records) |-> Serialize(records[i])]]

\* mutant: writeQueue stores the empty array instead of removing the key
writeQueue_StoresEmptyArray(store, storageKey, records, throws) ==
    IF throws THEN store ELSE [store EXCEPT ![storageKey] = Stringify(records)]

\* writeQueue; `throws` is whether the storage call throws (quota, availability)
writeQueue(store, storageKey, records, throws) ==
    IF ~isBrowserEnvironment THEN store
    ELSE IF throws THEN store
    ELSE IF Len(records) = 0 THEN [store EXCEPT ![storageKey] = Absent]
    ELSE [store EXCEPT ![storageKey] = Stringify(records)]

\* mutant: the overflow trim keeps the oldest records instead of the newest
trimQueue_KeepsOldest(records, cfg) == SliceTo(records, cfg.maxQueueSize)

trimQueue(records, cfg) ==
    IF Len(records) <= cfg.maxQueueSize THEN records
    ELSE SliceFrom(records, Len(records) - cfg.maxQueueSize)

\* mutant: a storage failure is reported through onError
persistQueue_ReportsFailure(s, cfg, throws) ==
    IF throws THEN [s EXCEPT !.errors = Append(@, "storage")]
    ELSE [s EXCEPT !.storage = writeQueue(@, cfg.storageKey, s.queue, FALSE)]

persistQueue(s, cfg, throws) ==
    [s EXCEPT !.storage = writeQueue(@, cfg.storageKey, s.queue, throws)]

----------------------------------------------------------------------------
\* Issue aggregation.

NoIssueState == [present |-> FALSE, timestamps |-> <<>>, lastTriggeredAt |-> -1]

pruneIssueState(state, now, cfg) ==
    LET windowStart == now - cfg.errorReporting.thresholdWindowMs
    IN  [state EXCEPT !.timestamps = SelectSeq(@, LAMBDA t : t >= windowStart)]

\* mutant: recordIssue starts the aggregate afresh on every occurrence
recordIssue_ReplacesAggregate(aggregates, cfg, fingerprint, timestamp, triggerThreshold) ==
    [ aggregates |-> [aggregates EXCEPT ![fingerprint] =
                         [present |-> TRUE, timestamps |-> <<timestamp>>,
                          lastTriggeredAt |-> -1]],
      fired |-> FALSE ]

\* recordIssue: the aggregates afterwards, and whether onThresholdReached was invoked
\* (a threshold callback is configured).
recordIssue(aggregates, cfg, fingerprint, timestamp, triggerThreshold) ==
    LET existingState == aggregates[fingerprint]
        pushed == IF ~existingState.present
                  THEN [present |-> TRUE, timestamps |-> <<timestamp>>, lastTriggeredAt |-> -1]
                  ELSE [existingState EXCEPT !.timestamps = Append(@, timestamp)]
        state == pruneIssueState(pushed, timestamp, cfg)
        lastTriggeredAt == state.lastTriggeredAt
    IN  IF Len(state.timestamps) = 0
        THEN [aggregates |-> [aggregates EXCEPT ![fingerprint] = NoIssueState],
              fired |-> FALSE]
        ELSE IF \/ ~triggerThreshold
                \/ Len(state.timestamps) < cfg.errorReporting.thresholdCount
                \/ /\ lastTriggeredAt # -1
                   /\ timestamp - lastTriggeredAt < cfg.errorReporting.thresholdWindowMs
        THEN [aggregates |-> [aggregates EXCEPT ![fingerprint] = state], fired |-> FALSE]
        ELSE [aggregates |->
                  [aggregates EXCEPT ![fingerprint] =
                      [state EXCEPT !.lastTriggeredAt = timestamp]],
              fired |-> TRUE]

\* getIssueReports at time `now`: prune every aggregate, delete the empty ones.
pruneAllIssues(aggregates, cfg, now) ==
    [fp \in DOMAIN aggregates |->
        LET state == pruneIssueState(aggregates[fp], now, cfg)
        IN  IF aggregates[fp].present /\ Len(state.timestamps) > 0 THEN state
            ELSE NoIssueState]

\* buildIssueReport: count of the report for a fingerprint, 0 when there is none.
buildIssueReport(aggregates, fingerprint) ==
    IF aggregates[fingerprint].present THEN Len(aggregates[fingerprint].timestamps) ELSE 0

\* [...state.timestamps].sort((a, b) => a - b)
RECURSIVE sortTimestamps(_)
sortTimestamps(timestamps) ==
    IF Len(timestamps) = 0 THEN <<>>
    ELSE LET sorted == sortTimestamps(SubSeq(timestamps, 1, Len(timestamps) - 1))
             last == timestamps[Len(timestamps)]
         IN  SelectSeq(sorted, LAMBDA t : t <= last) \o <<last>>
                 \o SelectSeq(sorted, LAMBDA t : t > last)

\* buildIssueReport for an aggregate that has timestamps: the report's
\* fingerprint, count, firstSeen and lastSeen
issueReport(fingerprint, state) ==
    LET sortedTimestamps == sortTimestamps(state.timestamps)
    IN  [ fingerprint |-> fingerprint,
          count |-> Len(sortedTimestamps),
          firstSeen |-> sortedTimestamps[1],
          lastSeen |-> sortedTimestamps[Len(sortedTimestamps)] ]

\* mutant: the comparator of getIssueReports orders by ascending count only
compareReports_AscendingCount(left, right) == left.count - right.count

\* the comparator of getIssueReports: negative when `left` goes first
compareReports(left, right) ==
    IF right.count # left.count THEN right.count - left.count
    ELSE right.lastSeen - left.lastSeen

\* Array.prototype.sort with that comparator (a stable sort)
RECURSIVE sortReports(_)
sortReports(reports) ==
    IF Len(reports) = 0 THEN <<>>
    ELSE LET sorted == sortReports(SubSeq(reports, 1, Len(reports) - 1))
             last == reports[Len(reports)]
         IN  SelectSeq(sorted, LAMBDA r : compareReports(r, last) <= 0) \o <<last>>
                 \o SelectSeq(sorted, LAMBDA r : compareReports(r, last) > 0)

\* what getIssueReports returns at time `now`; `entries` are the fingerprints
\* in the iteration order of the issueAggregates map
getIssueReports(aggregates, cfg, now, entries) ==
    LET pruned == pruneAllIssues(aggregates, cfg, now)
        kept == SelectSeq(entries, LAMBDA fp : pruned[fp].present)
    IN  sortReports([i \in 1..Len(kept) |-> issueReport(kept[i], pruned[kept[i]])])

----------------------------------------------------------------------------
\* Flush scheduler.  `s` is the client's mutable state during one operation,
\* together with what the operation has done so far to its collaborators:
\* s.transport the batches handed to the transport, s.beacon those given to
\* navigator.sendBeacon, s.sent whether sendBeacon accepted, s.errors the
\* onError invocations, s.thresholds the onThresholdReached invocations.

\* mutant: the batch-time gate lets every batch through
canSendBatchToEndpoint_AllowsAll(cfg, events) == TRUE

canSendBatchToEndpoint(cfg, events) ==
    \/ cfg.endpoint = ""
    \/ ~cfg.errorReporting.secureEndpointOnly
    \/ isSecureEndpoint(cfg.endpoint)
    \/ ~(\E i \in 1..Len(events) : events[i].kind = "error")

\* createPayload when Date.now() is `now`: the request body before JSON.stringify
createPayload(config, events, now) ==
    [ source |-> config.source, channel |-> config.channel, runtime |-> config.runtime,
      sentAt |-> now, events |-> events ]

\* mutant: flush() without the in-flight guard
flush_NoInFlightGuard(s, cfg, destroyed) ==
    IF destroyed \/ ~cfg.enabled \/ cfg.endpoint = "" THEN s
    ELSE IF Len(s.queue) = 0 THEN s
    ELSE LET events == SliceTo(s.queue, cfg.batchSize)
         IN  IF ~canSendBatchToEndpoint(cfg, events)
             THEN [s EXCEPT !.errors = Append(@, "refused")]
             ELSE [s EXCEPT !.isFlushing = TRUE,
                            !.calls = Append(@, [events |-> events]),
                            !.transport = Append(@, events)]

\* mutant: flush() tests the in-flight guard before the empty-queue guard
flush_GuardBeforeEmptyCheck(s, cfg, destroyed) ==
    IF destroyed \/ ~cfg.enabled \/ cfg.endpoint = "" THEN s
    ELSE IF s.isFlushing THEN [s EXCEPT !.flushQueuedAfterCurrent = TRUE]
    ELSE IF Len(s.queue) = 0 THEN s
    ELSE LET events == SliceTo(s.queue, cfg.batchSize)
         IN  IF ~canSendBatchToEndpoint(cfg, events)
             THEN [s EXCEPT !.errors = Append(@, "refused")]
             ELSE [s EXCEPT !.isFlushing = TRUE,
                            !.calls = Append(@, [events |-> events]),
                            !.transport = Append(@, events)]

\* mutant: flush() sends the newest records of the queue instead of the oldest
flush_SendsNewest(s, cfg, destroyed) ==
    IF destroyed \/ ~cfg.enabled \/ cfg.endpoint = "" THEN s
    ELSE IF Len(s.queue) = 0 THEN s
    ELSE IF s.isFlushing THEN [s EXCEPT !.flushQueuedAfterCurrent = TRUE]
    ELSE LET events == SliceLast(s.queue, cfg.batchSize)
         IN  IF ~canSendBatchToEndpoint(cfg, events)
             THEN [s EXCEPT !.errors = Append(@, "refused")]
             ELSE [s EXCEPT !.isFlushing = TRUE,
                            !.calls = Append(@, [events |-> events]),
                            !.transport = Append(@, events)]

\* mutant: flush() sets isFlushing before it asks the batch-time gate
flush_InFlightBeforeGate(s, cfg, destroyed) ==
    IF destroyed \/ ~cfg.enabled \/ cfg.endpoint = "" THEN s
    ELSE IF Len(s.queue) = 0 THEN s
    ELSE IF s.isFlushing THEN [s EXCEPT !.flushQueuedAfterCurrent = TRUE]
    ELSE LET events == SliceTo(s.queue, cfg.batchSize)
         IN  IF ~canSendBatchToEndpoint(cfg, events)
             THEN [s EXCEPT !.isFlushing = TRUE, !.errors = Append(@, "refused")]
             ELSE [s EXCEPT !.isFlushing = TRUE,
                            !.calls = Append(@, [events |-> events]),
                            !.transport = Append(@, events),
                            !.payloads = Append(@, createPayload(cfg, events, s.now))]

\* `transport` keeps the events of each request handed to the transport and
\* `payloads` the body of the request, before JSON.stringify
flush(s, cfg, destroyed) ==
    IF destroyed \/ ~cfg.enabled \/ cfg.endpoint = "" THEN s
    ELSE IF Len(s.queue) = 0 THEN s
    ELSE IF s.isFlushing THEN [s EXCEPT !.flushQueuedAfterCurrent = TRUE]
    ELSE LET events == SliceTo(s.queue, cfg.batchSize)
         IN  IF ~canSendBatchToEndpoint(cfg, events)
             THEN [s EXCEPT !.errors = Append(@, "refused")]
             ELSE [s EXCEPT !.isFlushing = TRUE,
                            !.calls = Append(@, [events |-> events]),
                            !.transport = Append(@, events),
                            !.payloads = Append(@, createPayload(cfg, events, s.now))]

\* mutant: the continuation starts a follow-up flush whether or not one was requested
flushContinuation_AlwaysRetries(s, cfg, destroyed, call, succeeded, throws) ==
    LET settled == IF succeeded
                   THEN persistQueue([s EXCEPT !.queue = SliceFrom(@, Len(call.events))],
                                     cfg, throws)
                   ELSE [s EXCEPT !.errors = Append(@, "transport")]
        cleared == [settled EXCEPT !.isFlushing = FALSE, !.flushQueuedAfterCurrent = FALSE]
    IN  IF Len(cleared.queue) > 0 THEN flush(cleared, cfg, destroyed) ELSE cleared

\* mutant: the continuation evicts the batch after a failed transport call too
flushContinuation_EvictsOnFailure(s, cfg, destroyed, call, succeeded, throws) ==
    LET evicted == persistQueue([s EXCEPT !.queue = SliceFrom(@, Len(call.events))],
                                cfg, throws)
        settled == IF succeeded THEN evicted
                   ELSE [evicted EXCEPT !.errors = Append(@, "transport")]
        released == [settled EXCEPT !.isFlushing = FALSE]
    IN  IF released.flushQueuedAfterCurrent
        THEN LET cleared == [released EXCEPT !.flushQueuedAfterCurrent = FALSE]
             IN  IF Len(cleared.queue) > 0 THEN flush(cleared, cfg, destroyed) ELSE cleared
        ELSE released

\* mutant: isFlushing is reset in the try block, not in a finally block
flushContinuation_ReleasesOnSuccessOnly(s, cfg, destroyed, call, succeeded, throws) ==
    LET settled == IF succeeded
                   THEN [persistQueue([s EXCEPT !.queue = SliceFrom(@, Len(call.events))],
                                      cfg, throws) EXCEPT !.isFlushing = FALSE]
                   ELSE [s EXCEPT !.errors = Append(@, "transport")]
    IN  IF settled.flushQueuedAfterCurrent
        THEN LET cleared == [settled EXCEPT !.flushQueuedAfterCurrent = FALSE]
             IN  IF Len(cleared.queue) > 0 THEN flush(cleared, cfg, destroyed) ELSE cleared
        ELSE settled

\* mutant: the follow-up flush of the continuation does not test isDestroyed
flushContinuation_RetriesAfterDestroy(s, cfg, destroyed, call, succeeded, throws) ==
    LET settled == IF succeeded
                   THEN persistQueue([s EXCEPT !.queue = SliceFrom(@, Len(call.events))],
                                     cfg, throws)
                   ELSE [s EXCEPT !.errors = Append(@, "transport")]
        released == [settled EXCEPT !.isFlushing = FALSE]
    IN  IF released.flushQueuedAfterCurrent
        THEN LET cleared == [released EXCEPT !.flushQueuedAfterCurrent = FALSE]
             IN  IF Len(cleared.queue) > 0 THEN flush(cleared, cfg, FALSE) ELSE cleared
        ELSE released

\* The continuation of flush() after `await resolvedConfig.transport(...)` for the
\* outstanding call `call` (try / catch / finally).
flushContinuation(s, cfg, destroyed, call, succeeded, throws) ==
    LET settled == IF succeeded
                   THEN persistQueue([s EXCEPT !.queue = SliceFrom(@, Len(call.events))],
                                     cfg, throws)
                   ELSE [s EXCEPT !.errors = Append(@, "transport")]
        released == [settled EXCEPT !.isFlushing = FALSE]
    IN  IF released.flushQueuedAfterCurrent
        THEN LET cleared == [released EXCEPT !.flushQueuedAfterCurrent = FALSE]
             IN  IF Len(cleared.queue) > 0 THEN flush(cleared, cfg, destroyed) ELSE cleared
        ELSE released

\* mutant: enqueueRecord flushes only once the queue is longer than a batch
enqueueRecord_FlushAboveBatch(s, cfg, destroyed, record, throws) ==
    LET pushed == [s EXCEPT !.queue = trimQueue(Append(@, record), cfg)]
        persisted == persistQueue(pushed, cfg, throws)
    IN  IF Len(persisted.queue) > cfg.batchSize THEN flush(persisted, cfg, destroyed)
        ELSE persisted

\* mutant: recordIssue calls onThresholdReached outside any try/catch, so its
\* exception leaves enqueueRecord before the batch-size check
enqueueRecord_CallbackPropagates(s, cfg, destroyed, record, throws) ==
    LET pushed == [s EXCEPT !.queue = trimQueue(Append(@, record), cfg)]
        persisted == persistQueue(pushed, cfg, throws)
        issue == recordIssue(persisted.issueAggregates, cfg, record.error,
                             record.timestamp, TRUE)
        recorded == IF record.kind = "error" /\ record.error # NoFingerprint
                    THEN [persisted EXCEPT
                            !.issueAggregates = issue.aggregates,
                            !.thresholds = IF issue.fired
                                           THEN Append(@, [fingerprint |-> record.error,
                                                           at |-> record.timestamp])
                                           ELSE @,
                            !.threw = issue.fired /\ s.thresholdThrows]
                    ELSE persisted
    IN  IF recorded.threw THEN recorded
        ELSE IF Len(recorded.queue) >= cfg.batchSize THEN flush(recorded, cfg, destroyed)
        ELSE recorded

\* s.thresholdThrows: the configured onThresholdReached throws when it is called;
\* the catch block of recordIssue hands the exception to onError.
enqueueRecord(s, cfg, destroyed, record, throws) ==
    LET pushed == [s EXCEPT !.queue = trimQueue(Append(@, record), cfg)]
        persisted == persistQueue(pushed, cfg, throws)
        issue == recordIssue(persisted.issueAggregates, cfg, record.error,
                             record.timestamp, TRUE)
        recorded == IF record.kind = "error" /\ record.error # NoFingerprint
                    THEN [persisted EXCEPT
                            !.issueAggregates = issue.aggregates,
                            !.thresholds = IF issue.fired
                                           THEN Append(@, [fingerprint |-> record.error,
                                                           at |-> record.timestamp])
                                           ELSE @,
                            !.errors = IF issue.fired /\ s.thresholdThrows
                                       THEN Append(@, "threshold-callback")
                                       ELSE @]
                    ELSE persisted
    IN  IF Len(recorded.queue) >= cfg.batchSize THEN flush(recorded, cfg, destroyed)
        ELSE recorded

\* flushWithBeacon; `beacon` is what navigator.sendBeacon does when called:
\* "unavailable" (no such function), "accepted", "rejected" or "throws".
\* The result's `sent` is the function's return value.
flushWithBeacon(s, cfg, beacon, throws) ==
    LET events == SliceTo(s.queue, cfg.batchSize)
        offered == [s EXCEPT !.beacon = Append(@, events)]
    IN  IF cfg.endpoint = "" \/ Len(s.queue) = 0 THEN s
        ELSE IF beacon = "unavailable" THEN s
        ELSE IF ~canSendBatchToEndpoint(cfg, events)
        THEN [s EXCEPT !.errors = Append(@, "refused")]
        ELSE IF beacon = "accepted"
        THEN persistQueue([offered EXCEPT !.queue = SliceFrom(@, Len(events)),
                                          !.sent = TRUE],
                          cfg, throws)
        ELSE offered

\* startFlushTimer: the value of flushTimer afterwards
startFlushTimer(cfg) == IF ~cfg.enabled THEN 0 ELSE cfg.flushIntervalMs

\* mutant: startFlushTimer arms a timer without clearing the one it holds
armedTimers_NoClear(armed, timer, cfg) == IF ~cfg.enabled THEN armed ELSE armed + 1

\* startFlushTimer: the number of armed interval timers afterwards, `armed` being
\* their number and `timer` the value of flushTimer before
armedTimers(armed, timer, cfg) ==
    LET cleared == IF timer # 0 THEN armed - 1 ELSE armed
    IN  IF ~cfg.enabled THEN cleared ELSE cleared + 1

----------------------------------------------------------------------------
\* Public operations on the client state `s` (which also carries nextId).

\* createMergedContext; a context is a function from its keys, <<>> the empty one
createMergedContext(cfg, eventChannel, eventContext) ==
    LET injected == IF cfg.injectChannelContext
                    THEN {"analyticsChannel", "analyticsRuntime"} ELSE {}
    IN  [k \in DOMAIN cfg.defaultContext \cup DOMAIN eventContext \cup injected |->
            IF k \in DOMAIN eventContext THEN eventContext[k]
            ELSE IF k \in DOMAIN cfg.defaultContext THEN cfg.defaultContext[k]
            ELSE IF k = "analyticsChannel" THEN eventChannel
            ELSE cfg.runtime]

\* mutant: track() does not test isDestroyed
track_IgnoresDestroyed(s, cfg, destroyed, event, throws) ==
    IF ~cfg.enabled THEN s
    ELSE enqueueRecord([s EXCEPT !.nextId = @ + 1], cfg, destroyed,
                       [ id |-> s.nextId, component |-> event.component,
                         action |-> event.action, kind |-> "interaction",
                         channel |-> cfg.channel, runtime |-> cfg.runtime,
                         source |-> cfg.source, sessionId |-> cfg.sessionId,
                         timestamp |-> event.timestamp,
                         context |-> createMergedContext(cfg, cfg.channel, <<>>),
                         error |-> <<>> ],
                       throws)

track(s, cfg, destroyed, event, throws) ==
    IF destroyed \/ ~cfg.enabled THEN s
    ELSE LET eventChannel == IF Has(event, "channel") THEN event.channel ELSE cfg.channel
             kind == IF Has(event, "kind") /\ event.kind = "error"
                     THEN "error" ELSE "interaction"
             normalizedError == IF kind = "error" /\ Has(event, "error")
                                THEN event.error ELSE NoFingerprint
             record == [ id |-> s.nextId,
                         component |-> event.component,
                         action |-> event.action,
                         kind |-> kind,
                         channel |-> eventChannel,
                         runtime |-> cfg.runtime,
                         source |-> cfg.source,
                         sessionId |-> cfg.sessionId,
                         timestamp |-> event.timestamp,
                         context |-> createMergedContext(
                                         cfg, eventChannel,
                                         IF Has(event, "context") THEN event.context
                                         ELSE <<>>),
                         error |-> normalizedError ]
         IN  enqueueRecord([s EXCEPT !.nextId = @ + 1], cfg, destroyed, record, throws)

\* A context handed to reportError is an object graph: `heap` gives every
\* object or array its entries in insertion order, `root` is the context object
\* itself.  A value is a string or a reference to an object of the heap.
Str(text) == Json("string", text)

Ref(object) == Json("ref", object)

\* the placeholder @plasius/schema writes for a value whose log handling is
\* "redact"
REDACTED_VALUE == "[REDACTED]"

\* the words of DEFAULT_ERROR_REDACT_KEYS that key.trim().toLowerCase() equals
\* or includes, for the keys the model uses
DenylistWordsIn(key) ==
    CASE key = "password" -> {"password"}
      [] key = "authToken" -> {"auth", "token"}
      [] key = "userEmail" -> {"user", "email"}
      [] OTHER -> {}

shouldRedactContextKey(key, resolvedErrorReporting) ==
    \E candidate \in resolvedErrorReporting.redactKeys : candidate \in DenylistWordsIn(key)

RECURSIVE sanitizeContextValue(_, _, _, _, _)
RECURSIVE sanitizeContextEntries(_, _, _, _, _, _)

\* sanitizeContextValue: the sanitized value and the WeakSet `seen` afterwards;
\* the strings of the model are single lines shorter than maxMessageLength,
\* which sanitizeSingleLine returns as they are
sanitizeContextValue(heap, value, resolvedErrorReporting, depth, seen) ==
    IF value.t = "string" THEN [out |-> Str(value.v), seen |-> seen]
    ELSE IF value.v \in seen THEN [out |-> Str("[circular]"), seen |-> seen]
    ELSE IF depth >= resolvedErrorReporting.maxContextDepth
    THEN [out |-> Str("[truncated]"), seen |-> seen \cup {value.v}]
    ELSE LET object == heap[value.v]
             entries == SliceTo(object.entries, resolvedErrorReporting.maxContextBreadth)
             done == sanitizeContextEntries(heap, entries, object.array,
                                            resolvedErrorReporting, depth,
                                            seen \cup {value.v})
         IN  [ out |-> Json(IF object.array THEN "array" ELSE "object", done.out),
               seen |-> done.seen ]

\* the loop over the entries of an object (or the map over the items of an
\* array), one entry after the other with the same `seen`
sanitizeContextEntries(heap, entries, array, resolvedErrorReporting, depth, seen) ==
    IF Len(entries) = 0 THEN [out |-> <<>>, seen |-> seen]
    ELSE LET entry == Head(entries)
             first == IF ~array /\ shouldRedactContextKey(entry.key, resolvedErrorReporting)
                      THEN [out |-> Str(REDACTED_VALUE), seen |-> seen]
                      ELSE sanitizeContextValue(heap, entry.value, resolvedErrorReporting,
                                                depth + 1, seen)
             rest == sanitizeContextEntries(heap, Tail(entries), array,
                                            resolvedErrorReporting, depth, first.seen)
         IN  [ out |-> <<[key |-> entry.key, value |-> first.out]>> \o rest.out,
               seen |-> rest.seen ]

\* sanitizeErrorContext(report.context): the sanitized context as a function
\* from its keys; `seen` starts empty and the context object itself is not
\* added to it
sanitizeErrorContext(report, resolvedErrorReporting) ==
    IF ~Has(report, "context") THEN <<>>
    ELSE LET context == report.context
             entries == SliceTo(context.heap[context.root].entries,
                                resolvedErrorReporting.maxContextBreadth)
             done == sanitizeContextEntries(context.heap, entries, FALSE,
                                            resolvedErrorReporting, 0, {})
         IN  [key \in {done.out[i].key : i \in 1..Len(done.out)} |->
                 (CHOOSE entry \in Range(done.out) : entry.key = key).value]

\* mutant: trackFrontend and trackBackend leave the channel to track()
trackWithChannel_ConfiguredChannel(s, cfg, destroyed, event, channel, throws) ==
    track(s, cfg, destroyed, event, throws)

\* trackWithChannel: { ...event, channel }
trackWithChannel(s, cfg, destroyed, event, channel, throws) ==
    track(s, cfg, destroyed,
          [f \in DOMAIN event \cup {"channel"} |->
              IF f = "channel" THEN channel ELSE event[f]],
          throws)

\* normalizeErrorReport: the fingerprint is a hash of
\* boundary|name|message|first stack line|severity, kept here as that tuple.
normalizeErrorReport(report) ==
    <<report.boundary,
      IF Has(report, "name") THEN report.name ELSE "Error",
      report.message,
      IF Has(report, "stack") THEN Head(report.stack) ELSE "",
      IF Has(report, "severity") /\ report.severity = "fatal" THEN "fatal" ELSE "error">>

\* mutant: reportError() does not test errorReporting.enabled
reportError_IgnoresReportingSwitch(s, cfg, destroyed, report, throws) ==
    IF destroyed \/ ~cfg.enabled THEN s
    ELSE IF /\ cfg.errorReporting.secureEndpointOnly
            /\ cfg.endpoint # ""
            /\ ~isSecureEndpoint(cfg.endpoint)
    THEN [s EXCEPT !.errors = Append(@, "refused")]
    ELSE enqueueRecord([s EXCEPT !.nextId = @ + 1], cfg, destroyed,
                       [ id |-> s.nextId, component |-> report.boundary,
                         action |-> "error_boundary_caught", kind |-> "error",
                         channel |-> cfg.channel, runtime |-> cfg.runtime,
                         source |-> cfg.source, sessionId |-> cfg.sessionId,
                         timestamp |-> report.timestamp,
                         context |-> createMergedContext(
                                         cfg, cfg.channel,
                                         [errorFingerprint |-> normalizeErrorReport(report)]),
                         error |-> normalizeErrorReport(report) ],
                       throws)

\* mutant: reportError() without the report-time secure-endpoint gate
reportError_NoReportTimeGate(s, cfg, destroyed, report, throws) ==
    IF destroyed \/ ~cfg.enabled THEN s
    ELSE IF ~cfg.errorReporting.enabled THEN s
    ELSE enqueueRecord([s EXCEPT !.nextId = @ + 1], cfg, destroyed,
                       [ id |-> s.nextId, component |-> report.boundary,
                         action |-> "error_boundary_caught", kind |-> "error",
                         channel |-> cfg.channel, runtime |-> cfg.runtime,
                         source |-> cfg.source, sessionId |-> cfg.sessionId,
                         timestamp |-> report.timestamp,
                         context |-> createMergedContext(
                                         cfg, cfg.channel,
                                         [errorFingerprint |-> normalizeErrorReport(report)]),
                         error |-> normalizeErrorReport(report) ],
                       throws)

reportError(s, cfg, destroyed, report, throws) ==
    IF destroyed \/ ~cfg.enabled THEN s
    ELSE IF ~cfg.errorReporting.enabled THEN s
    ELSE IF /\ cfg.errorReporting.secureEndpointOnly
            /\ cfg.endpoint # ""
            /\ ~isSecureEndpoint(cfg.endpoint)
    THEN [s EXCEPT !.errors = Append(@, "refused")]
    ELSE LET eventChannel == IF Has(report, "channel") THEN report.channel ELSE cfg.channel
             normalizedError == normalizeErrorReport(report)
             errorContext == sanitizeErrorContext(report, cfg.errorReporting)
             record == [ id |-> s.nextId,
                         component |-> report.boundary,
                         action |-> IF Has(report, "handled") /\ ~report.handled
                                    THEN "unhandled_error" ELSE "error_boundary_caught",
                         kind |-> "error",
                         channel |-> eventChannel,
                         runtime |-> cfg.runtime,
                         source |-> cfg.source,
                         sessionId |-> cfg.sessionId,
                         timestamp |-> report.timestamp,
                         context |-> createMergedContext(
                                         cfg, eventChannel,
                                         [key \in DOMAIN errorContext
                                                  \cup {"errorFingerprint"} |->
                                             IF key = "errorFingerprint" THEN normalizedError
                                             ELSE errorContext[key]]),
                         error |-> normalizedError ]
         IN  enqueueRecord([s EXCEPT !.nextId = @ + 1], cfg, destroyed, record, throws)

\* mutant: the lifecycle handlers do not fall back to flush()
handleLifecycle_NoFallback(s, cfg, destroyed, beacon, throws) ==
    flushWithBeacon(s, cfg, beacon, throws)

\* handlePageHide, and handleVisibilityChange once the document is hidden
handleLifecycle(s, cfg, destroyed, beacon, throws) ==
    LET attempt == flushWithBeacon(s, cfg, beacon, throws)
    IN  IF attempt.sent THEN attempt ELSE flush(attempt, cfg, destroyed)

\* mutant: the migration leaves the queue under the previous storage key
applyConfig_KeepsOldKey(s, previousStorageKey, cfg, throwsOld, throwsNew) ==
    LET migrated == IF previousStorageKey # cfg.storageKey
                    THEN persistQueue(s, cfg, throwsNew)
                    ELSE s
    IN  IF cfg.endpoint # "" /\ Len(migrated.queue) > 0 THEN flush(migrated, cfg, FALSE)
        ELSE migrated

\* mutant: updateConfig() does not flush after applying the configuration
applyConfig_NoFlush(s, previousStorageKey, cfg, throwsOld, throwsNew) ==
    IF previousStorageKey # cfg.storageKey
    THEN persistQueue(
             [s EXCEPT !.storage = writeQueue(@, previousStorageKey, <<>>, throwsOld)],
             cfg, throwsNew)
    ELSE s

\* updateConfig once resolveConfig has returned `cfg`
applyConfig(s, previousStorageKey, cfg, throwsOld, throwsNew) ==
    LET migrated ==
            IF previousStorageKey # cfg.storageKey
            THEN persistQueue(
                     [s EXCEPT !.storage = writeQueue(@, previousStorageKey, <<>>, throwsOld)],
                     cfg, throwsNew)
            ELSE s
    IN  IF cfg.endpoint # "" /\ Len(migrated.queue) > 0 THEN flush(migrated, cfg, FALSE)
        ELSE migrated

\* mutant: normalizeStoredRecord gives every record the channel and runtime of
\* the current configuration
normalizeStoredRecord_UsesFallbacks(value, fallbackConfig) ==
    [ id |-> value.v.id.v,
      component |-> value.v.component.v,
      action |-> value.v.action.v,
      source |-> value.v.source.v,
      sessionId |-> value.v.sessionId.v,
      timestamp |-> value.v.timestamp.v,
      kind |-> IF "kind" \in DOMAIN value.v /\ value.v.kind.v = "error"
               THEN "error" ELSE "interaction",
      channel |-> fallbackConfig.channel,
      runtime |-> fallbackConfig.runtime,
      context |-> IF "context" \in DOMAIN value.v /\ value.v.context.t = "object"
                  THEN value.v.context.v ELSE <<>>,
      error |-> NoFingerprint ]

\* mutant: isStoredRecordCandidate does not ask for a numeric timestamp
isStoredRecordCandidate_AnyTimestamp(value) ==
    /\ value.t = "object"
    /\ \A f \in {"id", "component", "action", "source", "sessionId"} :
           f \in DOMAIN value.v /\ value.v[f].t = "string"
    /\ "timestamp" \in DOMAIN value.v

\* typeof value.field === type, for a parsed JSON object
HasTyped(fields, field, type) == Has(fields, field) /\ fields[field].t = type

isStoredRecordCandidate(value) ==
    /\ value.t = "object"
    /\ \A f \in {"id", "component", "action", "source", "sessionId"} :
           HasTyped(value.v, f, "string")
    /\ HasTyped(value.v, "timestamp", "number")

\* the error details are kept as their fingerprint; an object that lacks the
\* string fields isErrorDetailsCandidate asks for is the empty one
isErrorDetailsCandidate(fields) ==
    HasTyped(fields, "error", "object") /\ fields.error.v # NoFingerprint

normalizeStoredRecord(value, fallbackConfig) ==
    LET fields == value.v
        kind == IF HasTyped(fields, "kind", "string") /\ fields.kind.v = "error"
                THEN "error" ELSE "interaction"
    IN  [ id |-> fields.id.v,
          component |-> fields.component.v,
          action |-> fields.action.v,
          source |-> fields.source.v,
          sessionId |-> fields.sessionId.v,
          timestamp |-> fields.timestamp.v,
          kind |-> kind,
          channel |-> IF HasTyped(fields, "channel", "string")
                         /\ fields.channel.v \in Channels
                      THEN fields.channel.v ELSE fallbackConfig.channel,
          runtime |-> IF HasTyped(fields, "runtime", "string")
                         /\ fields.runtime.v \in Runtimes
                      THEN fields.runtime.v ELSE fallbackConfig.runtime,
          context |-> IF HasTyped(fields, "context", "object") THEN fields.context.v
                      ELSE <<>>,
          error |-> IF kind = "error" /\ isErrorDetailsCandidate(fields)
                    THEN fields.error.v ELSE NoFingerprint ]

\* readQueue: [] unless the stored text parses to an array; then the entries
\* that pass isStoredRecordCandidate, normalized
readQueue(store, storageKey, fallbackConfig) ==
    IF ~isBrowserEnvironment THEN <<>>
    ELSE IF store[storageKey].json # "array" THEN <<>>
    ELSE LET parsed == store[storageKey].items
             kept == SelectSeq(parsed, isStoredRecordCandidate)
         IN  [i \in 1..Len(kept) |-> normalizeStoredRecord(kept[i], fallbackConfig)]

\* mutant: the construction loop lets recordIssue check the threshold
RECURSIVE replayIssues_Triggers(_, _, _)
replayIssues_Triggers(aggregates, cfg, records) ==
    IF Len(records) = 0 THEN [aggregates |-> aggregates, thresholds |-> <<>>]
    ELSE LET record == Head(records)
             replayed == record.kind = "error" /\ record.error # NoFingerprint
             issue == recordIssue(aggregates, cfg, record.error, record.timestamp, TRUE)
             rest == replayIssues_Triggers(IF replayed THEN issue.aggregates ELSE aggregates,
                                           cfg, Tail(records))
         IN  [rest EXCEPT !.thresholds =
                 (IF replayed /\ issue.fired
                  THEN <<[fingerprint |-> record.error, at |-> record.timestamp]>>
                  ELSE <<>>) \o @]

\* the construction loop over the loaded queue, recordIssue(error, timestamp,
\* false) for every error record: the aggregates afterwards and the
\* onThresholdReached invocations made meanwhile
RECURSIVE replayIssues(_, _, _)
replayIssues(aggregates, cfg, records) ==
    IF Len(records) = 0 THEN [aggregates |-> aggregates, thresholds |-> <<>>]
    ELSE LET record == Head(records)
             replayed == record.kind = "error" /\ record.error # NoFingerprint
             issue == recordIssue(aggregates, cfg, record.error, record.timestamp, FALSE)
             rest == replayIssues(IF replayed THEN issue.aggregates ELSE aggregates,
                                  cfg, Tail(records))
         IN  [rest EXCEPT !.thresholds =
                 (IF replayed /\ issue.fired
                  THEN <<[fingerprint |-> record.error, at |-> record.timestamp]>>
                  ELSE <<>>) \o @]

----------------------------------------------------------------------------
\* Inputs.

EventTimes == {1000}

TrackEvents ==
    { [component |-> "Header", action |-> "click", timestamp |-> t] : t \in EventTimes }

ErrorReports ==
    { [boundary |-> "CheckoutBoundary", message |-> "Payment failed", timestamp |-> t] :
        t \in EventTimes }

\* inputs of the issue-aggregation scenarios: reports of one error at several
\* times (report.timestamp), with and without severity "fatal"
IssueTimes == {1000, 1500, 2500}

IssueReports ==
    { [boundary |-> "CheckoutBoundary", message |-> "Payment failed", timestamp |-> t] :
        t \in IssueTimes }
    \cup { [ boundary |-> "CheckoutBoundary", message |-> "Payment failed",
             severity |-> "fatal", timestamp |-> t ] : t \in IssueTimes }

IssueConfigs ==
    { [ source |-> "app",
        errorReporting |-> [thresholdCount |-> n, thresholdWindowMs |-> 1000] ] :
      n \in {2, 3} }

Fingerprints ==
    {normalizeErrorReport(r) : r \in ErrorReports \cup IssueReports}
    \cup {<<"Header", "TypeError", "x is undefined", "", "error">>}

ExplicitStorageKeys ==
    { <<"analytics-client-test-old-key">>, <<"analytics-client-test-new-key">>,
      <<"analytics-client-test-restore">> }

StorageKeys ==
    ExplicitStorageKeys \cup {buildDefaultStorageKey(s, c) : s \in Sources, c \in Channels}

InitialConfigs ==
    { [ source |-> "app", batchSize |-> 2, maxQueueSize |-> 2,
        errorReporting |-> [thresholdCount |-> 2, thresholdWindowMs |-> 1000] ] }

ConfigUpdates ==
    { [endpoint |-> e] : e \in {"", "https://example.com/collect", "http://example.com"} }
    \cup { [enabled |-> b] : b \in BOOLEAN }
    \cup { [batchSize |-> n] : n \in {1, 2} }
    \cup { [source |-> " "] }

\* inputs of the error-reporting scenarios: an error sent through track(), the
\* error-reporting switches, and endpoints on both sides of the secure-endpoint gate
ReportingEvents ==
    TrackEvents
    \cup { [ component |-> "Header", action |-> "crash", timestamp |-> t, kind |-> "error",
             error |-> <<"Header", "TypeError", "x is undefined", "", "error">> ] :
           t \in EventTimes }

ReportingUpdates ==
    { [endpoint |-> e] : e \in {"", "http://example.com", "/collect"} }
    \cup { [errorReporting |-> [enabled |-> b]] : b \in BOOLEAN }
    \cup { [errorReporting |-> [secureEndpointOnly |-> b]] : b \in BOOLEAN }

\* inputs of the persistence scenarios: what a storage key may hold before a
\* client is constructed, and clients constructed one after the other over it
RestoreKey == <<"analytics-client-test-restore">>

LegacyFields ==
    [ id |-> Json("string", 101), component |-> Json("string", "Header"),
      action |-> Json("string", "click"), source |-> Json("string", "sharedcomponents"),
      sessionId |-> Json("string", <<"session", 0>>), timestamp |-> Json("number", 900) ]

\* fields added to, or replacing, those of a JSON object
With(fields, more) ==
    [f \in DOMAIN fields \cup DOMAIN more |->
        IF f \in DOMAIN more THEN more[f] ELSE fields[f]]

StoredEntries ==
    { Json("object", [bad |-> Json("boolean", TRUE)]),
      Json("null", <<>>),
      Json("object", With(LegacyFields, [context |-> Json("string", "invalid-context")])),
      Json("object", With(LegacyFields,
                          [ id |-> Json("string", 102),
                            channel |-> Json("string", "backend"),
                            runtime |-> Json("string", "server"),
                            kind |-> Json("string", "interaction"),
                            context |-> Json("object", [plan |-> "pro"]) ])),
      Json("object", With(LegacyFields,
                          [ id |-> Json("string", 103),
                            channel |-> Json("string", "mobile"),
                            runtime |-> Json("number", 7),
                            kind |-> Json("string", "warning"),
                            context |-> Json("array", <<>>) ])),
      Json("object", With(LegacyFields, [id |-> Json("number", 104)])),
      Json("object", With(LegacyFields, [ id |-> Json("string", 105),
                                          timestamp |-> Json("string", 900) ])) }

RECURSIVE SeqsUpTo(_, _)
SeqsUpTo(S, n) ==
    IF n = 0 THEN {<<>>}
    ELSE LET shorter == SeqsUpTo(S, n - 1)
         IN  shorter \cup {Append(s, x) : s \in shorter, x \in S}

StoredValues ==
    { Absent,
      [json |-> "invalid", items |-> <<>>],
      [json |-> "object", items |-> <<>>] }
    \cup { [json |-> "array", items |-> items] : items \in SeqsUpTo(StoredEntries, MaxStored) }

StorageConfigs ==
    { [source |-> "app", batchSize |-> 2, maxQueueSize |-> 2, storageKey |-> RestoreKey],
      [ source |-> "app", channel |-> "backend", runtime |-> "server", batchSize |-> 2,
        maxQueueSize |-> 1, storageKey |-> RestoreKey ] }

StorageEvents ==
    TrackEvents
    \cup { [ component |-> "Footer", action |-> "open", timestamp |-> t,
             channel |-> "backend", context |-> [plan |-> "pro"] ] : t \in EventTimes }

\* inputs of the storage-key scenarios: clients created without and with an
\* explicit storage key, and updates of the key, the channel and the source
OldKey == <<"analytics-client-test-old-key">>
NewKey == <<"analytics-client-test-new-key">>

KeyConfigs ==
    { [source |-> "app", batchSize |-> 2, maxQueueSize |-> 2],
      [source |-> "app", batchSize |-> 2, maxQueueSize |-> 2, storageKey |-> OldKey] }

KeyUpdates ==
    { [storageKey |-> k] : k \in {OldKey, NewKey} }
    \cup { [channel |-> c] : c \in Channels }
    \cup { [source |-> s] : s \in Sources }
    \cup { [endpoint |-> "https://example.com/collect"] }

\* inputs of the storage-fault scenarios: a client with an endpoint, whose
\* storage key is changed
FaultConfigs ==
    { [ source |-> "app", batchSize |-> 2, maxQueueSize |-> 2,
        endpoint |-> "https://example.com/collect", storageKey |-> OldKey ] }

FaultUpdates == { [storageKey |-> NewKey] }

\* inputs of the delivery scenarios: an endpoint from the start, a queue that
\* never overflows (the default maxQueueSize), batches of one and of two
BatchConfigs ==
    { [source |-> "app", endpoint |-> "https://example.com/collect", batchSize |-> n] :
        n \in {1, 2} }

\* inputs of the eventual-delivery scenarios: a secure endpoint from the start
\* and a queue that overflows
LiveConfigs ==
    { [ source |-> "app", batchSize |-> n, maxQueueSize |-> 2,
        endpoint |-> "https://example.com/collect" ] : n \in {1, 2} }

OrderUpdates ==
    { [batchSize |-> n] : n \in {1, 2} } \cup { [enabled |-> b] : b \in BOOLEAN }

\* inputs of the timer scenarios: clients created enabled and disabled, the
\* interval changed, the client disabled and enabled again
TimerConfigs ==
    { [source |-> "app", batchSize |-> 2, maxQueueSize |-> 2],
      [source |-> "app", batchSize |-> 2, maxQueueSize |-> 2, enabled |-> FALSE] }

TimerUpdates ==
    { [enabled |-> b] : b \in BOOLEAN }
    \cup { [flushIntervalMs |-> n] : n \in {0, 1000, 60000} }
    \cup { [endpoint |-> "https://example.com/collect"] }

\* inputs of the replay scenarios: a client that persists error records under
\* a fixed key and reaches the threshold at the second occurrence
ReplayConfigs ==
    { [ source |-> "app", batchSize |-> 2, maxQueueSize |-> n, storageKey |-> RestoreKey,
        errorReporting |-> [thresholdCount |-> 2, thresholdWindowMs |-> 1000] ] :
      n \in {2, 3} }

ReplayReports ==
    { [boundary |-> "CheckoutBoundary", message |-> "Payment failed", timestamp |-> t] :
        t \in IssueTimes }

\* inputs of the queue-size scenarios: maxQueueSize is lowered and raised
SizeUpdates ==
    { [maxQueueSize |-> n] : n \in {1, 2} }
    \cup { [endpoint |-> "https://example.com/collect"] }

BeaconOutcomes == {"unavailable", "accepted", "rejected", "throws"}

\* the orders in which the issueAggregates map may hold its fingerprints (its
\* insertion order)
MapOrders(aggregates) ==
    LET keys == {fp \in DOMAIN aggregates : aggregates[fp].present}
    IN  { entries \in [1..Cardinality(keys) -> keys] :
            \A i, j \in DOMAIN entries : entries[i] = entries[j] => i = j }

\* whether a storage call of the running operation throws
StorageFaults == IF host.storageThrows THEN BOOLEAN ELSE {FALSE}

----------------------------------------------------------------------------
\* The state machine.

\* the operations that create a record
RecordOps == {"track", "trackFrontend", "trackBackend", "reportError"}

NoEffects ==
    [ op |-> "construct", transport |-> <<>>, beacon |-> <<>>, errors |-> <<>>,
      sent |-> FALSE, thresholds |-> <<>>, completed |-> <<>>, outcome |-> "",
      threw |-> FALSE, invoked |-> <<>>, hidden |-> FALSE, beaconAvailable |-> FALSE,
      delivered |-> <<>>, evicted |-> {}, reports |-> <<>>, payloads |-> <<>>,
      event |-> <<>> ]

\* the client state at the start of an operation
Core ==
    [ queue |-> queue, storage |-> storage, isFlushing |-> isFlushing,
      flushQueuedAfterCurrent |-> flushQueuedAfterCurrent, calls |-> calls,
      issueAggregates |-> issueAggregates, nextId |-> nextId,
      transport |-> <<>>, beacon |-> <<>>, sent |-> FALSE, errors |-> <<>>,
      thresholds |-> <<>>, thresholdThrows |-> host.callbackThrows, threw |-> FALSE,
      payloads |-> <<>>, now |-> host.now ]

\* what operation `op` did, ending in state s; `invoked` keeps every
\* onThresholdReached invocation made so far, `delivered` the batches of the
\* transport calls that succeeded so far and `evicted` the ids of the records
\* dropped so far by the overflow trim of enqueueRecord, where the history is kept
EffectsOf(s, op) ==
    [NoEffects EXCEPT !.op = op, !.transport = s.transport, !.beacon = s.beacon,
                      !.sent = s.sent, !.errors = s.errors, !.thresholds = s.thresholds,
                      !.threw = s.threw, !.payloads = s.payloads,
                      !.invoked = effects.invoked \o s.thresholds,
                      !.delivered = effects.delivered,
                      !.evicted = IF host.history /\ op \in RecordOps
                                  THEN effects.evicted
                                       \cup {r.id : r \in Range(queue) \ Range(s.queue)}
                                  ELSE effects.evicted]

\* the client state at the end of an operation whose effects were fx
CommitWith(s, fx) ==
    /\ queue' = s.queue
    /\ storage' = s.storage
    /\ isFlushing' = s.isFlushing
    /\ flushQueuedAfterCurrent' = s.flushQueuedAfterCurrent
    /\ calls' = s.calls
    /\ issueAggregates' = s.issueAggregates
    /\ nextId' = s.nextId
    /\ effects' = fx

Commit(s, op) == CommitWith(s, EffectsOf(s, op))

\* createLocalSpaceAnalyticsClient(config) on the host `environment`, whose
\* storage holds `store`
InitOn(environment, config, store) ==
    /\ host = environment
    /\ storage = store
    /\ resolvedConfig = resolveConfig(config, <<>>)
    /\ queue = SliceLast(readQueue(storage, resolvedConfig.storageKey, resolvedConfig),
                         resolvedConfig.maxQueueSize)
    /\ flushTimer = startFlushTimer(resolvedConfig)
    /\ timers = armedTimers(0, 0, resolvedConfig)
    /\ isFlushing = FALSE
    /\ flushQueuedAfterCurrent = FALSE
    /\ isDestroyed = FALSE
    /\ issueAggregates = replayIssues([fp \in Fingerprints |-> NoIssueState],
                                      resolvedConfig, queue).aggregates
    /\ hooksAttached = isBrowserEnvironment
    /\ calls = <<>>
    /\ nextId = 1
    /\ effects = LET replayed == replayIssues([fp \in Fingerprints |-> NoIssueState],
                                              resolvedConfig, queue).thresholds
                 IN  [NoEffects EXCEPT !.thresholds = replayed, !.invoked = replayed]

\* no second client on the page
NoPeer ==
    [ present |-> FALSE, resolvedConfig |-> <<>>, queue |-> <<>>, isFlushing |-> FALSE,
      flushQueuedAfterCurrent |-> FALSE, calls |-> <<>>, issueAggregates |-> <<>>,
      nextId |-> 1 ]

\* a browser whose storage works and that lets the behaviour create `capacity`
\* records; history: the transport keeps the batches of the calls it served
\* and the ids of the records the overflow trim dropped are noted
Browser(capacity) ==
    [ browser |-> TRUE, storageThrows |-> FALSE, now |-> 1000, capacity |-> capacity,
      sessions |-> 1, history |-> FALSE, callbackThrows |-> FALSE,
      peer |-> NoPeer ]

InitFrom(config, store, capacity) == InitOn(Browser(capacity), config, store)

EmptyStorage == [k \in StorageKeys |-> Absent]

Init == \E config \in InitialConfigs : InitFrom(config, EmptyStorage, MaxTracks)

Track(event) ==
    /\ nextId <= host.capacity \/ isDestroyed \/ ~resolvedConfig.enabled
    /\ \E throws \in StorageFaults :
          Commit(track(Core, resolvedConfig, isDestroyed, event, throws), "track")
    /\ UNCHANGED <<host, resolvedConfig, flushTimer, timers, isDestroyed, hooksAttached>>

ReportError(report) ==
    /\ nextId <= host.capacity \/ isDestroyed \/ ~resolvedConfig.enabled
    /\ \E throws \in StorageFaults :
          LET s == reportError(Core, resolvedConfig, isDestroyed, report, throws)
          IN  CommitWith(s, [EffectsOf(s, "reportError") EXCEPT !.event = report])
    /\ UNCHANGED <<host, resolvedConfig, flushTimer, timers, isDestroyed, hooksAttached>>

TrackFrontend(event) ==
    /\ nextId <= host.capacity \/ isDestroyed \/ ~resolvedConfig.enabled
    /\ \E throws \in StorageFaults :
          LET s == trackWithChannel(Core, resolvedConfig, isDestroyed, event, "frontend",
                                    throws)
          IN  CommitWith(s, [EffectsOf(s, "trackFrontend") EXCEPT !.event = event])
    /\ UNCHANGED <<host, resolvedConfig, flushTimer, timers, isDestroyed, hooksAttached>>

TrackBackend(event) ==
    /\ nextId <= host.capacity \/ isDestroyed \/ ~resolvedConfig.enabled
    /\ \E throws \in StorageFaults :
          LET s == trackWithChannel(Core, resolvedConfig, isDestroyed, event, "backend",
                                    throws)
          IN  CommitWith(s, [EffectsOf(s, "trackBackend") EXCEPT !.event = event])
    /\ UNCHANGED <<host, resolvedConfig, flushTimer, timers, isDestroyed, hooksAttached>>

Flush ==
    /\ Commit(flush(Core, resolvedConfig, isDestroyed), "flush")
    /\ UNCHANGED <<host, resolvedConfig, flushTimer, timers, isDestroyed, hooksAttached>>

\* the setInterval callback
TimerTick ==
    /\ timers > 0
    /\ Commit(flush(Core, resolvedConfig, isDestroyed), "timer")
    /\ UNCHANGED <<host, resolvedConfig, flushTimer, timers, isDestroyed, hooksAttached>>

\* the transport promise of the outstanding call i settles
Complete(i, succeeded) ==
    /\ i \in 1..Len(calls)
    /\ \E throws \in StorageFaults :
          LET s == flushContinuation([Core EXCEPT !.calls = RemoveAt(@, i)],
                                     resolvedConfig, isDestroyed, calls[i], succeeded,
                                     throws)
          IN  CommitWith(s, [EffectsOf(s, "complete") EXCEPT
                                !.completed = calls[i].events,
                                !.outcome = IF succeeded THEN "resolved" ELSE "rejected",
                                !.delivered = IF succeeded /\ host.history
                                              THEN Append(@, calls[i].events) ELSE @])
    /\ UNCHANGED <<host, resolvedConfig, flushTimer, timers, isDestroyed, hooksAttached>>

\* the step log of a lifecycle signal also says whether the page was being
\* hidden and whether navigator.sendBeacon was there to call
LifecycleEffects(s, op, hidden, beacon) ==
    [EffectsOf(s, op) EXCEPT !.hidden = hidden,
                             !.beaconAvailable = hidden /\ beacon # "unavailable"]

PageHide(beacon) ==
    /\ hooksAttached
    /\ \E throws \in StorageFaults :
          LET s == handleLifecycle(Core, resolvedConfig, isDestroyed, beacon, throws)
          IN  CommitWith(s, LifecycleEffects(s, "pagehide", TRUE, beacon))
    /\ UNCHANGED <<host, resolvedConfig, flushTimer, timers, isDestroyed, hooksAttached>>

VisibilityChange(visibilityState, beacon) ==
    /\ hooksAttached
    /\ \E throws \in StorageFaults :
          LET s == IF visibilityState # "hidden" THEN Core
                   ELSE handleLifecycle(Core, resolvedConfig, isDestroyed, beacon, throws)
          IN  CommitWith(s, LifecycleEffects(s, "visibilitychange",
                                             visibilityState = "hidden", beacon))
    /\ UNCHANGED <<host, resolvedConfig, flushTimer, timers, isDestroyed, hooksAttached>>

UpdateConfig(nextConfig) ==
    LET spread == SpreadConfig(resolvedConfig, nextConfig)
    IN  /\ IF isDestroyed
           THEN /\ Commit(Core, "updateConfig")
                /\ UNCHANGED <<resolvedConfig, flushTimer, timers>>
           ELSE IF resolveConfigThrows(spread, resolvedConfig)
           THEN /\ CommitWith(Core, [EffectsOf(Core, "updateConfig") EXCEPT !.threw = TRUE])
                /\ UNCHANGED <<resolvedConfig, flushTimer, timers>>
           ELSE LET cfg == resolveConfig(spread, resolvedConfig)
                IN  /\ resolvedConfig' = cfg
                    /\ flushTimer' = startFlushTimer(cfg)
                    /\ timers' = armedTimers(timers, flushTimer, cfg)
                    /\ \E throwsOld \in StorageFaults, throwsNew \in StorageFaults :
                          Commit(applyConfig(Core, resolvedConfig.storageKey, cfg,
                                             throwsOld, throwsNew),
                                 "updateConfig")
        /\ UNCHANGED <<host, isDestroyed, hooksAttached>>

\* getIssueReports() when Date.now() is `now`
GetIssueReports(now) ==
    /\ now >= host.now
    /\ host' = [host EXCEPT !.now = now]
    /\ \E entries \in MapOrders(issueAggregates) :
          LET s == [Core EXCEPT !.issueAggregates = pruneAllIssues(@, resolvedConfig, now)]
          IN  CommitWith(s, [EffectsOf(s, "getIssueReports") EXCEPT
                                !.reports = getIssueReports(issueAggregates, resolvedConfig,
                                                            now, entries)])
    /\ UNCHANGED <<resolvedConfig, flushTimer, timers, isDestroyed, hooksAttached>>

Destroy ==
    /\ IF isDestroyed
       THEN /\ Commit(Core, "destroy")
            /\ UNCHANGED <<isDestroyed, flushTimer, timers, hooksAttached>>
       ELSE /\ isDestroyed' = TRUE
            /\ flushTimer' = 0
            /\ timers' = IF flushTimer # 0 THEN timers - 1 ELSE timers
            /\ hooksAttached' = IF isBrowserEnvironment THEN FALSE ELSE hooksAttached
            /\ Commit(flush(Core, resolvedConfig, TRUE), "destroy")
    /\ UNCHANGED <<host, resolvedConfig>>

\* The page is loaded again: the client and its pending calls are gone, and
\* createLocalSpaceAnalyticsClient(config) constructs a new client over the
\* storage the old one left.
Reload(config) ==
    /\ host.sessions < MaxClients
    /\ host' = [host EXCEPT !.sessions = @ + 1]
    /\ resolvedConfig' = resolveConfig(config, <<>>)'
    /\ storage' = storage
    /\ queue' = SliceLast(readQueue(storage, resolvedConfig'.storageKey, resolvedConfig'),
                          resolvedConfig'.maxQueueSize)
    /\ flushTimer' = startFlushTimer(resolvedConfig')
    /\ timers' = armedTimers(0, 0, resolvedConfig')
    /\ isFlushing' = FALSE
    /\ flushQueuedAfterCurrent' = FALSE
    /\ isDestroyed' = FALSE
    /\ issueAggregates' = replayIssues([fp \in Fingerprints |-> NoIssueState],
                                       resolvedConfig', queue').aggregates
    /\ hooksAttached' = isBrowserEnvironment
    /\ calls' = <<>>
    /\ nextId' = nextId
    /\ effects' = LET replayed == replayIssues([fp \in Fingerprints |-> NoIssueState],
                                               resolvedConfig', queue').thresholds
                  IN  [NoEffects EXCEPT !.thresholds = replayed,
                                        !.invoked = effects.invoked \o replayed,
                                        !.delivered = effects.delivered,
                                        !.evicted = effects.evicted]

Next ==
    \/ \E event \in TrackEvents : Track(event)
    \/ \E report \in ErrorReports : ReportError(report)
    \/ Flush
    \/ TimerTick
    \/ \E i \in 1..Len(calls), succeeded \in BOOLEAN : Complete(i, succeeded)
    \/ \E beacon \in BeaconOutcomes : PageHide(beacon)
    \/ \E beacon \in BeaconOutcomes : VisibilityChange("hidden", beacon)
    \/ VisibilityChange("visible", "unavailable")
    \/ \E nextConfig \in ConfigUpdates : UpdateConfig(nextConfig)
    \/ \E now \in EventTimes : GetIssueReports(now)
    \/ Destroy

Spec == Init /\ [][Next]_vars

\* The error-reporting scenarios: errors arrive through reportError and track,
\* the switches of errorReporting are turned, the endpoint moves between none,
\* an insecure one and a path-relative one.
NextReporting ==
    \/ \E event \in ReportingEvents : Track(event)
    \/ \E report \in ErrorReports : ReportError(report)
    \/ Flush
    \/ \E i \in 1..Len(calls), succeeded \in BOOLEAN : Complete(i, succeeded)
    \/ \E beacon \in {"accepted", "unavailable"} : PageHide(beacon)
    \/ \E nextConfig \in ReportingUpdates : UpdateConfig(nextConfig)

SpecReporting == Init /\ [][NextReporting]_vars

\* The issue-aggregation scenarios: no endpoint, reports of the same error at
\* caller-given times, getIssueReports() as the clock goes on.
InitIssues == \E config \in IssueConfigs : InitFrom(config, EmptyStorage, MaxReports)

NextIssues ==
    \/ \E report \in IssueReports : ReportError(report)
    \/ \E now \in IssueTimes : GetIssueReports(now)

SpecIssues == InitIssues /\ [][NextIssues]_vars

\* The persistence scenarios: a client is constructed over whatever the storage
\* key holds, events are tracked, and the page is loaded again.
InitStorage ==
    \E config \in StorageConfigs, value \in StoredValues :
        InitFrom(config, [EmptyStorage EXCEPT ![RestoreKey] = value], MaxTracks)

NextStorage ==
    \/ \E event \in StorageEvents : Track(event)
    \/ \E config \in StorageConfigs : Reload(config)

SpecStorage == InitStorage /\ [][NextStorage]_vars

\* The storage-key scenarios: the new key may hold what another client left.
InitKeys ==
    \E config \in KeyConfigs :
        InitFrom(config,
                 [EmptyStorage EXCEPT
                     ![NewKey] = [json |-> "array",
                                  items |-> <<Json("object", LegacyFields)>>]],
                 MaxTracks)

NextKeys ==
    \/ \E event \in TrackEvents : Track(event)
    \/ \E nextConfig \in KeyUpdates : UpdateConfig(nextConfig)
    \/ \E i \in 1..Len(calls), succeeded \in BOOLEAN : Complete(i, succeeded)

SpecKeys == InitKeys /\ [][NextKeys]_vars

\* The storage-fault scenarios: localStorage.setItem and removeItem may throw
\* (quota exceeded, storage disabled) at any call.
InitFaults ==
    \E config \in FaultConfigs :
        InitOn([Browser(MaxTracks) EXCEPT !.storageThrows = TRUE], config, EmptyStorage)

NextFaults ==
    \/ \E event \in TrackEvents : Track(event)
    \/ \E report \in ErrorReports : ReportError(report)
    \/ \E i \in 1..Len(calls), succeeded \in BOOLEAN : Complete(i, succeeded)
    \/ PageHide("accepted")
    \/ \E nextConfig \in FaultUpdates : UpdateConfig(nextConfig)

SpecFaults == InitFaults /\ [][NextFaults]_vars

\* The delivery scenarios: the transport keeps the batches it served, as the
\* transports of the tests do (requests.push(request)).
InitBatch ==
    \E config \in BatchConfigs :
        InitOn([Browser(MaxTracks) EXCEPT !.history = TRUE], config, EmptyStorage)

NextBatch ==
    \/ \E event \in TrackEvents : Track(event)
    \/ \E report \in ErrorReports : ReportError(report)
    \/ Flush
    \/ TimerTick
    \/ \E i \in 1..Len(calls), succeeded \in BOOLEAN : Complete(i, succeeded)

SpecBatch == InitBatch /\ [][NextBatch]_vars

\* The delivery scenarios again, the batch size changing and the client being
\* disabled, enabled and destroyed while calls are outstanding.
NextOrder ==
    \/ NextBatch
    \/ \E nextConfig \in OrderUpdates : UpdateConfig(nextConfig)
    \/ Destroy

SpecOrder == InitBatch /\ [][NextOrder]_vars

\* The eventual-delivery scenarios: an enabled client with a secure endpoint
\* and a queue that can overflow.  The interval timer keeps firing, and a
\* transport call succeeds sooner or later: it is never the case that calls
\* are made again and again and every one of them fails.
InitLive ==
    \E config \in LiveConfigs :
        InitOn([Browser(MaxTracks) EXCEPT !.history = TRUE], config, EmptyStorage)

NextLive ==
    \/ \E event \in TrackEvents : Track(event)
    \/ TimerTick
    \/ \E i \in 1..Len(calls), succeeded \in BOOLEAN : Complete(i, succeeded)

SpecLive ==
    /\ InitLive
    /\ [][NextLive]_vars
    /\ WF_vars(TimerTick)
    /\ SF_vars(\E i \in 1..Len(calls) : Complete(i, TRUE))

\* The timer scenarios.
InitTimer == \E config \in TimerConfigs : InitFrom(config, EmptyStorage, MaxTracks)

NextTimer ==
    \/ \E event \in TrackEvents : Track(event)
    \/ TimerTick
    \/ \E i \in 1..Len(calls), succeeded \in BOOLEAN : Complete(i, succeeded)
    \/ \E nextConfig \in TimerUpdates : UpdateConfig(nextConfig)
    \/ Destroy

SpecTimer == InitTimer /\ [][NextTimer]_vars

\* The replay scenarios: errors are reported, the page is loaded again and the
\* new client replays the error records it finds in storage.
InitReplay == \E config \in ReplayConfigs : InitFrom(config, EmptyStorage, MaxTracks)

NextReplay ==
    \/ \E report \in ReplayReports : ReportError(report)
    \/ \E event \in TrackEvents : Track(event)
    \/ \E config \in ReplayConfigs : Reload(config)
    \/ \E now \in IssueTimes : GetIssueReports(now)

SpecReplay == InitReplay /\ [][NextReplay]_vars

\* The queue-size scenarios: every operation that touches the queue, and
\* updates of maxQueueSize.
NextSizes ==
    \/ \E event \in TrackEvents : Track(event)
    \/ \E report \in ErrorReports : ReportError(report)
    \/ Flush
    \/ \E i \in 1..Len(calls), succeeded \in BOOLEAN : Complete(i, succeeded)
    \/ \E beacon \in {"accepted", "rejected"} : PageHide(beacon)
    \/ \E nextConfig \in SizeUpdates : UpdateConfig(nextConfig)

SpecSizes == Init /\ [][NextSizes]_vars

----------------------------------------------------------------------------
\* Properties.

\* an operation that asks for a flush
FlushRequestOps ==
    {"flush", "timer", "track", "reportError", "updateConfig", "pagehide",
     "visibilitychange", "destroy"}

LifecycleOps == {"pagehide", "visibilitychange"}

\* the step is a track() call that created a record (enabled client, not destroyed)
TrackCreates ==
    /\ effects'.op = "track"
    /\ ~isDestroyed
    /\ resolvedConfig.enabled
    /\ nextId' = nextId + 1

\* C1 (queue bound).  Every track call on an enabled client appends the new
\* record at the tail and keeps only the last maxQueueSize records of the result,
\* dropping the oldest first, and the value persisted under the storage key is
\* the serialization of exactly that queue.  Hence N > k track calls with no
\* delivery in between leave exactly the k most recent records, in track order,
\* in the queue and under the storage key.
C1_QueueBound ==
    [][ TrackCreates =>
          LET k == resolvedConfig.maxQueueSize
              tracked == queue'[Len(queue')]
          IN  /\ Len(queue') = Min(Len(queue) + 1, k)
              /\ tracked.id = nextId
              /\ queue' = SliceLast(Append(queue, tracked), k)
              /\ storage'[resolvedConfig.storageKey] = Stringify(queue')
              /\ Len(storage'[resolvedConfig.storageKey].items) <= k ]_vars

\* C1 witness: more records were tracked than maxQueueSize, and the persisted
\* queue holds exactly the maxQueueSize most recent ones, oldest first.
C1_Witness ==
    /\ effects.op = "track"
    /\ nextId - 1 > resolvedConfig.maxQueueSize
    /\ Len(queue) = resolvedConfig.maxQueueSize
    /\ \A i \in 1..Len(queue) : queue[i].id = nextId - 1 - Len(queue) + i
    /\ storage[resolvedConfig.storageKey] = Stringify(queue)
    /\ effects.transport = <<>>

\* C2 (records leave the queue only by delivery or overflow eviction).  In every
\* step, a record that leaves the queue was (a) in the batch of the transport
\* call that has just succeeded, or in the batch the beacon has just accepted, or
\* (b) evicted oldest-first by a track/reportError that overflowed maxQueueSize.
C2_RemovedOnlyByDeliveryOrEviction ==
    [][ \A r \in Range(queue) \ Range(queue') :
          \/ /\ effects'.op = "complete"
             /\ effects'.outcome = "resolved"
             /\ r \in Range(effects'.completed)
          \/ /\ effects'.op \in LifecycleOps
             /\ effects'.sent
             /\ r \in Range(effects'.beacon[1])
          \/ /\ effects'.op \in {"track", "reportError"}
             /\ Len(queue) + 1 > resolvedConfig.maxQueueSize
             /\ \A kept \in Range(queue') : r.id < kept.id ]_vars

\* C3 (at most one concurrent flush).  In every reachable state at most one
\* transport call is outstanding.
C3_AtMostOneOutstanding == Len(calls) <= 1

\* C3 witness: a transport call is outstanding and a further flush request has
\* arrived meanwhile (it was coalesced instead of starting a second call).
C3_Witness ==
    /\ Len(calls) = 1
    /\ isFlushing
    /\ flushQueuedAfterCurrent
    /\ effects.op \in FlushRequestOps
    /\ effects.transport = <<>>

\* the follow-up flush of a completion goes through flush()'s own guards
FollowUpAllowed ==
    /\ flushQueuedAfterCurrent
    /\ Len(queue') > 0
    /\ ~isDestroyed
    /\ resolvedConfig.enabled
    /\ resolvedConfig.endpoint # ""
    /\ canSendBatchToEndpoint(resolvedConfig, SliceTo(queue', resolvedConfig.batchSize))

\* C4 as stated (coalescing).  When an attempt completes after a flush was
\* requested during it, exactly one follow-up transport invocation is made if the
\* queue is then non-empty, and none if it is empty.
C4_ExactlyOneFollowUp ==
    [][ (effects'.op = "complete" /\ flushQueuedAfterCurrent) =>
          Len(effects'.transport) = (IF Len(queue') > 0 THEN 1 ELSE 0) ]_vars

\* C4 as amended.  A flush request made while a transport call is outstanding
\* invokes no transport and starts no call; an explicit or timer request made
\* then on a live client (not destroyed, enabled, endpoint set, queue non-empty)
\* sets the pending-retry flag.  When the attempt completes, the flag is
\* cleared and at most one follow-up transport invocation is made: exactly one,
\* with the head batch, if the flag was set, the queue is then non-empty, the
\* client is not destroyed and enabled, an endpoint is configured and the head
\* batch passes the secure-endpoint gate; none otherwise.
C4_Coalescing ==
    [][ /\ (effects'.op \in FlushRequestOps /\ isFlushing) =>
              (effects'.transport = <<>> /\ calls' = calls)
        /\ ( /\ effects'.op \in {"flush", "timer"}
             /\ isFlushing
             /\ ~isDestroyed
             /\ resolvedConfig.enabled
             /\ resolvedConfig.endpoint # ""
             /\ Len(queue) > 0 ) => flushQueuedAfterCurrent'
        /\ effects'.op = "complete" =>
              /\ ~flushQueuedAfterCurrent'
              /\ effects'.transport =
                    (IF FollowUpAllowed
                     THEN <<SliceTo(queue', resolvedConfig.batchSize)>>
                     ELSE <<>>) ]_vars

\* C4 witness: a completion has just started the one follow-up call.
C4_Witness ==
    /\ effects.op = "complete"
    /\ Len(effects.transport) = 1
    /\ isFlushing
    /\ ~flushQueuedAfterCurrent
    /\ calls = <<[events |-> effects.transport[1]]>>

\* C5 (delivery failure).  When the transport call of a flush fails, the queue
\* and the storage are left as they were, onError is invoked exactly once with
\* the failure, the in-flight guard is released (it is held afterwards only by a
\* follow-up attempt), and no transport invocation follows unless a flush was
\* requested during the attempt; starting a flush attempt changes neither the
\* queue nor the storage, and the transport is otherwise invoked only by an
\* explicit flush, a timer tick, a track/reportError, an updateConfig or a
\* lifecycle signal.
C5_DeliveryFailure ==
    [][ /\ (effects'.op = "complete" /\ effects'.outcome = "rejected") =>
              /\ queue' = queue
              /\ storage' = storage
              /\ Len(SelectSeq(effects'.errors, LAMBDA e : e = "transport")) = 1
              /\ effects'.errors[1] = "transport"
              /\ isFlushing' = (effects'.transport # <<>>)
              /\ ~flushQueuedAfterCurrent =>
                    (~isFlushing' /\ effects'.transport = <<>> /\ calls' = <<>>)
        /\ effects'.op \in {"flush", "timer"} => (queue' = queue /\ storage' = storage)
        /\ effects'.transport # <<>> =>
              \/ effects'.op \in FlushRequestOps \ {"destroy"}
              \/ effects'.op = "complete" /\ flushQueuedAfterCurrent ]_vars

\* C5 witness: a transport call has just failed with no retry pending; the
\* queue still holds its records, onError got the failure, the guard is free.
C5_Witness ==
    /\ effects.op = "complete"
    /\ effects.outcome = "rejected"
    /\ effects.errors = <<"transport">>
    /\ effects.transport = <<>>
    /\ Len(queue) > 0
    /\ SliceTo(queue, Len(effects.completed)) = effects.completed
    /\ storage[resolvedConfig.storageKey] = Stringify(queue)
    /\ ~isFlushing

\* C6 (flush is a no-op).  flush() on a client that is destroyed, disabled,
\* without endpoint or with an empty queue invokes neither the transport nor
\* onError and changes neither the queue, the storage, the in-flight flag, the
\* pending-retry flag nor the outstanding call.
C6_FlushNoOp ==
    [][ ( /\ effects'.op = "flush"
          /\ \/ isDestroyed
             \/ ~resolvedConfig.enabled
             \/ resolvedConfig.endpoint = ""
             \/ Len(queue) = 0 ) =>
          /\ effects'.transport = <<>>
          /\ effects'.errors = <<>>
          /\ UNCHANGED <<queue, storage, isFlushing, flushQueuedAfterCurrent, calls>> ]_vars

\* C6 witness: flush() was called with an empty queue while a transport call
\* was outstanding, and the pending-retry flag is still unset.
C6_Witness ==
    /\ effects.op = "flush"
    /\ Len(queue) = 0
    /\ isFlushing
    /\ ~flushQueuedAfterCurrent
    /\ ~isDestroyed
    /\ resolvedConfig.enabled
    /\ resolvedConfig.endpoint # ""
    /\ effects.transport = <<>>

\* C7 (destroy attempts one final flush).  destroy() on an enabled client with
\* an endpoint, a non-empty queue whose head batch passes the secure-endpoint
\* gate and no transport call outstanding invokes the transport once with the
\* queue prefix.
C7_DestroyFlushes ==
    [][ ( /\ effects'.op = "destroy"
          /\ ~isDestroyed
          /\ resolvedConfig.enabled
          /\ resolvedConfig.endpoint # ""
          /\ Len(queue) > 0
          /\ ~isFlushing
          /\ canSendBatchToEndpoint(resolvedConfig,
                                    SliceTo(queue, resolvedConfig.batchSize)) ) =>
          effects'.transport = <<SliceTo(queue, resolvedConfig.batchSize)>> ]_vars

\* C8 (no-ops after destroy).  Once the client is destroyed the timer and the
\* lifecycle hooks stay removed, and every track, reportError, flush,
\* updateConfig and destroy call leaves the queue, the storage, the
\* configuration, the issue aggregates and the scheduler flags unchanged and
\* invokes neither transport nor beacon.
C8_NoOpAfterDestroy ==
    /\ [](isDestroyed => (flushTimer = 0 /\ ~hooksAttached))
    /\ [][ ( /\ isDestroyed
             /\ effects'.op \in {"track", "reportError", "flush", "updateConfig",
                                 "destroy"} ) =>
             /\ effects'.transport = <<>>
             /\ effects'.beacon = <<>>
             /\ effects'.errors = <<>>
             /\ UNCHANGED <<queue, storage, resolvedConfig, issueAggregates, flushTimer,
                            hooksAttached, isFlushing, flushQueuedAfterCurrent, calls,
                            nextId, isDestroyed>> ]_vars

\* C8 witness: track() was called on a destroyed client that was enabled, had an
\* endpoint and a queued record; nothing was sent and the queue is as it was.
C8_Witness ==
    /\ isDestroyed
    /\ effects.op = "track"
    /\ resolvedConfig.enabled
    /\ resolvedConfig.endpoint # ""
    /\ Len(queue) > 0
    /\ nextId <= MaxTracks
    /\ flushTimer = 0
    /\ ~hooksAttached

\* the step is an updateConfig that supplies an endpoint to a client that had
\* none, with a non-empty queue of at most batchSize records
EndpointSupplied ==
    /\ effects'.op = "updateConfig"
    /\ resolvedConfig.endpoint = ""
    /\ resolvedConfig'.endpoint # ""
    /\ Len(queue) > 0
    /\ Len(queue) <= resolvedConfig'.batchSize

InsecureReport ==
    /\ effects'.op = "reportError"
    /\ ~isDestroyed
    /\ resolvedConfig.enabled
    /\ resolvedConfig.errorReporting.enabled
    /\ resolvedConfig.errorReporting.secureEndpointOnly
    /\ resolvedConfig.endpoint # ""
    /\ ~isSecureEndpoint(resolvedConfig.endpoint)

\* C10 as stated (insecure endpoint).  Such a reportError call records the
\* report locally: a record is queued and the issue aggregates gain an occurrence.
C10_InsecureReportRecordedLocally ==
    [][ InsecureReport =>
          /\ Len(queue') > 0
          /\ queue'[Len(queue')].id = nextId
          /\ \E fp \in Fingerprints :
                buildIssueReport(issueAggregates', fp)
                    = buildIssueReport(issueAggregates, fp) + 1 ]_vars

\* C10 as amended.  Such a reportError call is refused: no record is created or
\* queued, the storage and the issue aggregates are unchanged (getIssueReports
\* does not reflect the occurrence), the refusal is passed to onError, and
\* nothing is handed to the transport; so the report is never delivered.
C10_InsecureReportRefused ==
    [][ InsecureReport =>
          /\ effects'.errors = <<"refused">>
          /\ effects'.transport = <<>>
          /\ effects'.thresholds = <<>>
          /\ UNCHANGED <<queue, storage, issueAggregates, nextId, calls>> ]_vars

\* C10 witness: reportError has just been refused for http://example.com.
C10_Witness ==
    /\ effects.op = "reportError"
    /\ effects.errors = <<"refused">>
    /\ resolvedConfig.endpoint = "http://example.com"
    /\ resolvedConfig.errorReporting.secureEndpointOnly
    /\ resolvedConfig.enabled
    /\ ~isDestroyed
    /\ nextId <= MaxTracks
    /\ \A fp \in Fingerprints : buildIssueReport(issueAggregates, fp) = 0

\* the step is a reportError call on a live client that the configuration disables:
\* error reporting is switched off, or secureEndpointOnly is set and the endpoint
\* fails the secure-endpoint check
DisabledReport ==
    /\ effects'.op = "reportError"
    /\ ~isDestroyed
    /\ resolvedConfig.enabled
    /\ \/ ~resolvedConfig.errorReporting.enabled
       \/ /\ resolvedConfig.errorReporting.secureEndpointOnly
          /\ resolvedConfig.endpoint # ""
          /\ ~isSecureEndpoint(resolvedConfig.endpoint)

\* C11 (reportError disabled).  When error reporting is disabled in the
\* configuration, or secureEndpointOnly is set and the configured endpoint fails
\* the secure-endpoint check at report time, reportError appends no record to the
\* queue, leaves the persisted snapshot and every issue aggregate unchanged and
\* does not invoke the threshold callback.
C11_ReportErrorDisabled ==
    [][ DisabledReport =>
          /\ queue' = queue
          /\ nextId' = nextId
          /\ storage' = storage
          /\ issueAggregates' = issueAggregates
          /\ effects'.thresholds = <<>> ]_vars

\* C11 witness: reportError was called with error reporting switched off while an
\* earlier report is still queued and aggregated; nothing was added.
C11_Witness ==
    /\ effects.op = "reportError"
    /\ ~resolvedConfig.errorReporting.enabled
    /\ resolvedConfig.enabled
    /\ ~isDestroyed
    /\ Len(queue) = 1
    /\ queue[1].kind = "error"
    /\ buildIssueReport(issueAggregates, queue[1].error) = 1
    /\ effects.errors = <<>>

\* the endpoint in force at the end of the step fails the batch-time gate for
\* batches that hold an error record
InsecureEndpoint ==
    /\ resolvedConfig'.errorReporting.secureEndpointOnly
    /\ resolvedConfig'.endpoint # ""
    /\ ~isSecureEndpoint(resolvedConfig'.endpoint)

HasErrorRecord(events) == \E i \in 1..Len(events) : events[i].kind = "error"

\* C12 (batch-time security gate).  While secureEndpointOnly is set and the
\* endpoint is neither HTTPS, loopback HTTP nor path-relative, no batch that holds
\* an error-kind record is handed to the transport or to the beacon; a flush() that
\* reaches the gate with such a head batch reports the refusal through onError; and
\* a flush() whose head batch holds only interaction records hands that batch to
\* the transport for the same endpoint.
C12_BatchTimeGate ==
    [][ InsecureEndpoint =>
          LET head == SliceTo(queue, resolvedConfig.batchSize)
              reachesGate == /\ effects'.op = "flush"
                             /\ ~isDestroyed
                             /\ resolvedConfig.enabled
                             /\ ~isFlushing
                             /\ Len(queue) > 0
          IN  /\ \A i \in 1..Len(effects'.transport) :
                    ~HasErrorRecord(effects'.transport[i])
              /\ \A i \in 1..Len(effects'.beacon) : ~HasErrorRecord(effects'.beacon[i])
              /\ (reachesGate /\ HasErrorRecord(head)) =>
                    (effects'.errors = <<"refused">> /\ calls' = calls)
              /\ (reachesGate /\ ~HasErrorRecord(head)) =>
                    (effects'.transport = <<head>> /\ effects'.errors = <<>>) ]_vars

\* C12 witness: flush() has just refused a batch holding an error record for
\* http://example.com.
C12_Witness ==
    /\ effects.op = "flush"
    /\ effects.errors = <<"refused">>
    /\ effects.transport = <<>>
    /\ resolvedConfig.endpoint = "http://example.com"
    /\ resolvedConfig.errorReporting.secureEndpointOnly
    /\ HasErrorRecord(SliceTo(queue, resolvedConfig.batchSize))
    /\ calls = <<>>

\* C13 (threshold cooldown).  For each fingerprint the threshold callback is
\* invoked at most once per cooldown window: two invocations for the same
\* fingerprint are for reports at least thresholdWindowMs apart.
C13_ThresholdCooldown ==
    \A i, j \in 1..Len(effects.invoked) :
        (i < j /\ effects.invoked[i].fingerprint = effects.invoked[j].fingerprint) =>
            effects.invoked[j].at - effects.invoked[i].at
                >= resolvedConfig.errorReporting.thresholdWindowMs

\* the step is a reportError call that created a record
ReportCreates ==
    /\ effects'.op = "reportError"
    /\ nextId' = nextId + 1

\* the occurrences of an aggregate that are in the window ending at `now`,
\* once an occurrence at `now` is added
OccurrencesInWindow(state, now) ==
    Cardinality({i \in 1..Len(state.timestamps) :
                    state.timestamps[i] >= now - resolvedConfig.errorReporting.thresholdWindowMs})
    + 1

\* C14 as stated (fingerprint stability).  A reportError call whose boundary,
\* error name, message and first stack line are those of an existing issue
\* aggregate has that aggregate's fingerprint.
C14_SameErrorSameFingerprint ==
    [][ ReportCreates =>
          LET new == queue'[Len(queue')].error
          IN  \A fp \in Fingerprints :
                 ( /\ issueAggregates[fp].present
                   /\ SubSeq(fp, 1, 4) = SubSeq(new, 1, 4) ) => new = fp ]_vars

\* C14 as amended.  Two reportError calls with identical boundary, error name,
\* message, first stack line and severity produce identical fingerprints and add
\* their occurrences to the same issue aggregate: the later call leaves one
\* aggregate for them, whose count is the number of occurrences in the window,
\* and changes no other aggregate.
C14_FingerprintStability ==
    [][ ReportCreates =>
          LET record == queue'[Len(queue')]
              new == record.error
          IN  /\ \A fp \in Fingerprints :
                    ( /\ issueAggregates[fp].present
                      /\ SubSeq(fp, 1, 5) = SubSeq(new, 1, 5) ) => new = fp
              /\ buildIssueReport(issueAggregates', new)
                    = OccurrencesInWindow(issueAggregates[new], record.timestamp)
              /\ \A fp \in Fingerprints \ {new} :
                    issueAggregates'[fp] = issueAggregates[fp] ]_vars

\* C14 witness: the same error was reported twice and its one aggregate counts
\* both occurrences.
C14_Witness ==
    /\ effects.op = "reportError"
    /\ Len(queue) = 2
    /\ queue[1].error = queue[2].error
    /\ queue[1].id # queue[2].id
    /\ buildIssueReport(issueAggregates, queue[2].error) = 2
    /\ \A fp \in Fingerprints \ {queue[2].error} : ~issueAggregates[fp].present

\* the fields of a record that a reader of the queue observes after a reload
ObservableFields ==
    {"id", "component", "action", "channel", "runtime", "source", "sessionId",
     "timestamp", "context"}

\* C15 (round-trip persistence).  After track has appended an event, a new
\* client constructed with the same storage key, and a maxQueueSize not smaller
\* than the persisted length, has in its queue every persisted record, in the
\* persisted order, with the same id, component, action, channel, runtime,
\* source, session id, timestamp and context.
C15_RoundTrip ==
    [][ ( /\ effects.op = "track"
          /\ effects'.op = "construct"
          /\ resolvedConfig'.storageKey = resolvedConfig.storageKey
          /\ Len(queue) <= resolvedConfig'.maxQueueSize ) =>
          /\ Len(queue') = Len(queue)
          /\ \A i \in 1..Len(queue) : \A f \in ObservableFields :
                queue'[i][f] = queue[i][f] ]_vars

\* C15 witness: a client constructed with another channel, runtime and session
\* id has loaded the record the first client tracked, unchanged.
C15_Witness ==
    /\ effects.op = "construct"
    /\ host.sessions = 2
    /\ Len(queue) = 1
    /\ queue[1].id = 1
    /\ queue[1].sessionId = <<"session", 1>>
    /\ queue[1].sessionId # resolvedConfig.sessionId
    /\ queue[1].channel # resolvedConfig.channel
    /\ queue[1].runtime # resolvedConfig.runtime
    /\ storage[resolvedConfig.storageKey] = Stringify(queue)

\* a persisted entry that has string id, component, action, source, sessionId
\* and a numeric timestamp
WellFormedEntry(entry) ==
    /\ entry.t = "object"
    /\ \A f \in {"id", "component", "action", "source", "sessionId"} :
           f \in DOMAIN entry.v /\ entry.v[f].t = "string"
    /\ "timestamp" \in DOMAIN entry.v
    /\ entry.v.timestamp.t = "number"

\* the value of field f of a well-formed entry when it is one of `allowed`,
\* else the default
FieldOr(entry, f, allowed, default) ==
    IF f \in DOMAIN entry.v /\ entry.v[f].t = "string" /\ entry.v[f].v \in allowed
    THEN entry.v[f].v ELSE default

\* the queue a client with configuration cfg is to start with over `items`
RECURSIVE RestoredQueue(_, _)
RestoredQueue(items, cfg) ==
    IF Len(items) = 0 THEN <<>>
    ELSE LET entry == Head(items)
             rest == RestoredQueue(Tail(items), cfg)
             kind == FieldOr(entry, "kind", {"error"}, "interaction")
         IN  IF ~WellFormedEntry(entry) THEN rest
             ELSE << [ id |-> entry.v.id.v,
                       component |-> entry.v.component.v,
                       action |-> entry.v.action.v,
                       source |-> entry.v.source.v,
                       sessionId |-> entry.v.sessionId.v,
                       timestamp |-> entry.v.timestamp.v,
                       kind |-> kind,
                       channel |-> FieldOr(entry, "channel", Channels, cfg.channel),
                       runtime |-> FieldOr(entry, "runtime", Runtimes, cfg.runtime),
                       context |-> IF "context" \in DOMAIN entry.v
                                      /\ entry.v.context.t = "object"
                                   THEN entry.v.context.v ELSE <<>>,
                       error |-> IF kind = "error" /\ "error" \in DOMAIN entry.v
                                    /\ entry.v.error.t = "object"
                                 THEN entry.v.error.v ELSE NoFingerprint ] >> \o rest

\* C20 (malformed persisted data).  Whatever the storage key held (nothing, text
\* that does not parse, a value that is not an array, an array with invalid
\* entries), construction does not throw and does not invoke the error callback,
\* and the initial queue is exactly the well-formed persisted entries, in their
\* persisted order, truncated to the last maxQueueSize, with missing or invalid
\* channel, runtime and kind replaced by defaults and a non-object context
\* replaced by the empty map.
C20_MalformedPersistedData ==
    effects.op = "construct" =>
        LET held == storage[resolvedConfig.storageKey]
            items == IF held.json = "array" THEN held.items ELSE <<>>
        IN  /\ queue = SliceLast(RestoredQueue(items, resolvedConfig),
                                 resolvedConfig.maxQueueSize)
            /\ effects.errors = <<>>
            /\ ~effects.threw

\* C20 witness: the first client was constructed over an array holding an entry
\* without the required fields and a legacy entry with a string context and no
\* channel, runtime or kind; its queue is the legacy entry, normalized.
C20_Witness ==
    /\ effects.op = "construct"
    /\ host.sessions = 1
    /\ storage[RestoreKey].json = "array"
    /\ Len(storage[RestoreKey].items) = 2
    /\ ~WellFormedEntry(storage[RestoreKey].items[1])
    /\ "context" \in DOMAIN storage[RestoreKey].items[2].v
    /\ storage[RestoreKey].items[2].v.context.t = "string"
    /\ Len(queue) = 1
    /\ queue[1].id = 101
    /\ queue[1].context = <<>>
    /\ queue[1].channel = resolvedConfig.channel
    /\ queue[1].runtime = resolvedConfig.runtime
    /\ queue[1].kind = "interaction"

\* what writeQueue leaves under a key for the queue `records`
Persisted(records) == IF Len(records) = 0 THEN Absent ELSE Stringify(records)

\* the step is an updateConfig call on a live client that did not throw
ConfigApplied ==
    /\ effects'.op = "updateConfig"
    /\ ~isDestroyed
    /\ ~effects'.threw

\* C16 (storage-key migration).  When updateConfig changes the effective storage
\* key, immediately afterwards the old key is absent from storage, the new key
\* holds exactly the serialized in-memory queue (or is absent when the queue is
\* empty), and the in-memory queue is what it was before the call.
C16_StorageKeyMigration ==
    [][ (ConfigApplied /\ resolvedConfig'.storageKey # resolvedConfig.storageKey) =>
          /\ storage'[resolvedConfig.storageKey] = Absent
          /\ storage'[resolvedConfig'.storageKey] = Persisted(queue)
          /\ queue' = queue ]_vars

\* C16 witness: the queue has just been moved from the old key to a new key that
\* held another client's records.
C16_Witness ==
    /\ effects.op = "updateConfig"
    /\ resolvedConfig.storageKey = NewKey
    /\ storage[OldKey] = Absent
    /\ Len(queue) > 0
    /\ storage[NewKey] = Stringify(queue)
    /\ \A i \in 1..Len(queue) : queue[i].id <= MaxTracks

\* a key the caller never set: the keys callers set are single names, the
\* default keys are prefix.channel.source
IsDefaultKey(storageKey) == Len(storageKey) = 3

\* C17 (default storage-key re-derivation).  For a client whose caller never
\* set an explicit storage key, an updateConfig that changes the channel or the
\* source makes the effective storage key the default key of the new channel and
\* source and migrates the queue to it; for a client with an explicit storage
\* key, an updateConfig that leaves the key as it is keeps it whatever else changes.
C17_DefaultKeyRederived ==
    [][ ConfigApplied =>
          LET changed == \/ resolvedConfig'.channel # resolvedConfig.channel
                         \/ resolvedConfig'.source # resolvedConfig.source
              default == buildDefaultStorageKey(resolvedConfig'.source,
                                                resolvedConfig'.channel)
          IN  /\ (IsDefaultKey(resolvedConfig.storageKey) /\ changed) =>
                    /\ resolvedConfig'.storageKey = default
                    /\ storage'[default] = Persisted(queue')
              /\ ( /\ ~IsDefaultKey(resolvedConfig.storageKey)
                   /\ changed \/ resolvedConfig'.endpoint # resolvedConfig.endpoint ) =>
                    resolvedConfig'.storageKey = resolvedConfig.storageKey ]_vars

\* C18 (configuration error).  resolveConfig throws for every configuration
\* whose source is empty after trimming, at construction and in updateConfig, so
\* the source of the configuration snapshot is never empty; and when updateConfig
\* throws, the configuration snapshot, the queue, the persisted snapshot and the
\* periodic timer are as they were before the call, and nothing is sent.
C18_ConfigurationError ==
    /\ \A blank \in BlankStrings : resolveConfigThrows([source |-> blank], <<>>)
    /\ [](Trim(resolvedConfig.source) # "")
    /\ [][ (effects'.op = "updateConfig" /\ effects'.threw) =>
              /\ UNCHANGED <<resolvedConfig, queue, storage, flushTimer>>
              /\ UNCHANGED <<isFlushing, flushQueuedAfterCurrent, calls>>
              /\ effects'.transport = <<>> ]_vars

\* C18 witness: updateConfig has just thrown on a client that has events queued,
\* an endpoint and a running timer.
C18_Witness ==
    /\ effects.op = "updateConfig"
    /\ effects.threw
    /\ resolvedConfig.source = "app"
    /\ resolvedConfig.endpoint # ""
    /\ flushTimer # 0
    /\ Len(queue) > 0
    /\ storage[resolvedConfig.storageKey] = Stringify(queue)

\* the step is a pagehide signal, or a visibility change to hidden, on a client
\* with a non-empty queue and an endpoint
PageHidden ==
    /\ effects'.op \in LifecycleOps
    /\ effects'.hidden
    /\ Len(queue) > 0
    /\ resolvedConfig.endpoint # ""

\* the step left the scheduler as a flush() called in its place would have
FlushRequested ==
    LET requested == flush(Core, resolvedConfig, isDestroyed)
    IN  /\ effects'.transport = requested.transport
        /\ calls' = requested.calls
        /\ isFlushing' = requested.isFlushing
        /\ flushQueuedAfterCurrent' = requested.flushQueuedAfterCurrent

\* C19 as stated (lifecycle hooks).  On a pagehide signal or a visibility change
\* to hidden, with a non-empty queue and an endpoint, the head batch is offered
\* to the beacon whenever there is one to call.
C19_BatchOfferedToBeacon ==
    [][ (PageHidden /\ effects'.beaconAvailable) =>
          effects'.beacon = <<SliceTo(queue, resolvedConfig.batchSize)>> ]_vars

\* C19 as amended.  On a pagehide signal or a visibility change to hidden, with
\* a non-empty queue and an endpoint, the head batch (the first min(batchSize,
\* length) records) is offered to the beacon when there is one to call and the
\* batch passes the secure-endpoint gate; a batch that fails the gate is not
\* offered and the refusal goes to onError.  The batch is evicted and storage
\* rewritten only if the beacon reports acceptance, and then the transport is
\* not invoked; otherwise the queue and storage are unchanged and the normal
\* asynchronous flush is requested.  A visibility change to a state other than
\* hidden sends nothing.
C19_LifecycleHooks ==
    [][ /\ PageHidden =>
              LET batch == SliceTo(queue, resolvedConfig.batchSize)
                  passes == canSendBatchToEndpoint(resolvedConfig, batch)
              IN  /\ (effects'.beaconAvailable /\ passes) => effects'.beacon = <<batch>>
                  /\ (effects'.beaconAvailable /\ ~passes) =>
                        (effects'.beacon = <<>> /\ Len(effects'.errors) > 0)
                  /\ ~effects'.beaconAvailable => effects'.beacon = <<>>
                  /\ effects'.sent =>
                        /\ effects'.beacon = <<batch>>
                        /\ queue' = SliceFrom(queue, Len(batch))
                        /\ storage'[resolvedConfig.storageKey] = Persisted(queue')
                        /\ effects'.transport = <<>>
                        /\ calls' = calls
                  /\ ~effects'.sent =>
                        /\ queue' = queue
                        /\ storage' = storage
                        /\ FlushRequested
        /\ (effects'.op \in LifecycleOps /\ ~effects'.hidden) =>
              /\ effects'.beacon = <<>>
              /\ effects'.transport = <<>>
              /\ UNCHANGED <<queue, storage, calls, isFlushing, flushQueuedAfterCurrent>>
       ]_vars

\* C19 witness: the page was hidden, the beacon did not accept the batch, and the
\* fallback flush has handed the batch to the transport.
C19_Witness ==
    /\ effects.op \in LifecycleOps
    /\ effects.hidden
    /\ effects.beaconAvailable
    /\ ~effects.sent
    /\ Len(effects.beacon) = 1
    /\ effects.transport = effects.beacon
    /\ calls = <<[events |-> effects.beacon[1]]>>
    /\ Len(queue) > 0

\* the step left the client, and what it did to the transport, the beacon and
\* the callbacks, as in `s`; each storage key holds what it holds in `s` or
\* what it held before the step
AsIfWritten(s) ==
    /\ queue' = s.queue
    /\ calls' = s.calls
    /\ isFlushing' = s.isFlushing
    /\ flushQueuedAfterCurrent' = s.flushQueuedAfterCurrent
    /\ issueAggregates' = s.issueAggregates
    /\ effects'.transport = s.transport
    /\ effects'.beacon = s.beacon
    /\ effects'.errors = s.errors
    /\ effects'.thresholds = s.thresholds
    /\ ~effects'.threw
    /\ \A k \in StorageKeys : storage'[k] \in {s.storage[k], storage[k]}

\* C21 (storage errors are swallowed).  Whether or not the storage writes and
\* removals of a track, reportError, flush completion, lifecycle beacon send or
\* storage-key migration throw, the operation does not throw, invokes the error
\* callback exactly as it would have if they had succeeded, and leaves the
\* in-memory queue, the flush state and the transport and beacon invocations
\* exactly as if they had succeeded; only the stored value may stay what it was.
\* Transport calls carry the head of the in-memory queue whatever storage holds.
C21_StorageErrorsSwallowed ==
    [][ /\ effects'.op = "track" =>
              \E event \in TrackEvents :
                  AsIfWritten(track(Core, resolvedConfig, isDestroyed, event, FALSE))
        /\ effects'.op = "reportError" =>
              \E report \in ErrorReports :
                  AsIfWritten(reportError(Core, resolvedConfig, isDestroyed, report, FALSE))
        /\ effects'.op = "complete" =>
              \E i \in 1..Len(calls) :
                  AsIfWritten(flushContinuation([Core EXCEPT !.calls = RemoveAt(@, i)],
                                                resolvedConfig, isDestroyed, calls[i],
                                                effects'.outcome = "resolved", FALSE))
        /\ effects'.op = "pagehide" =>
              \E beacon \in BeaconOutcomes :
                  AsIfWritten(handleLifecycle(Core, resolvedConfig, isDestroyed, beacon,
                                              FALSE))
        /\ effects'.op = "updateConfig" =>
              AsIfWritten(applyConfig(Core, resolvedConfig.storageKey, resolvedConfig',
                                      FALSE, FALSE))
        /\ \A i \in 1..Len(effects'.transport) :
              /\ effects'.transport[i] # <<>>
              /\ effects'.transport[i] = SliceTo(queue', resolvedConfig'.batchSize) ]_vars

\* C21 witness: a storage write has thrown (the key holds nothing although the
\* queue holds records), no error was reported, and the operation has handed
\* the records of the in-memory queue to the transport.
C21_Witness ==
    /\ host.storageThrows
    /\ effects.op \in {"track", "reportError", "complete", "updateConfig"}
    /\ Len(queue) > 0
    /\ storage[resolvedConfig.storageKey] = Absent
    /\ effects.errors = <<>>
    /\ effects.transport = <<queue>>

\* C22 (size-bounded queue).  In every reachable state the in-memory queue
\* holds at most maxQueueSize records, maxQueueSize being that of the current
\* configuration.
C22_SizeBoundedQueue == Len(queue) <= resolvedConfig.maxQueueSize

\* C23 (persistence consistency).  Storage writes succeeding, every step that
\* changes the in-memory queue (append, overflow trim, eviction after a
\* successful transport call or an accepted beacon send) leaves under the
\* current storage key the serialization of the full in-memory queue, and
\* leaves the key absent, not holding an empty array, when the queue is empty.
C23_PersistenceConsistency ==
    [][ (~host.storageThrows /\ queue' # queue) =>
          LET stored == storage'[resolvedConfig'.storageKey]
          IN  /\ stored = Persisted(queue')
              /\ Len(queue') = 0 => stored = Absent
              /\ Len(queue') > 0 =>
                    (stored.json = "array" /\ Len(stored.items) = Len(queue')) ]_vars

\* C23 witness: a successful transport call has just evicted the last records;
\* the storage key, which held them, is absent.
C23_Witness ==
    /\ effects.op = "complete"
    /\ effects.outcome = "resolved"
    /\ effects.completed # <<>>
    /\ queue = <<>>
    /\ storage[resolvedConfig.storageKey] = Absent
    /\ ~host.storageThrows

\* the step is a track or reportError call that created a record
RecordCreated ==
    /\ effects'.op \in {"track", "reportError"}
    /\ nextId' = nextId + 1

\* C24 (batching).  Every transport invocation carries exactly the first
\* min(batchSize, queue length) records of the queue as it is when the flush
\* starts, in queue order.  When a transport call succeeds and the queue still
\* begins with the batch of the call, the queue afterwards is exactly the rest
\* of it.  A track or reportError that brings the queue length to batchSize or
\* more requests a flush at once: with an endpoint, the head batch goes to the
\* transport, or, a call being outstanding, the pending-retry flag is set.
\* Hence, with batchSize = 1, once two records were created and delivered the
\* transport has served two calls of one record each, in track order.
C24_Batching ==
    /\ [][ /\ \A i \in 1..Len(effects'.transport) :
                 LET events == effects'.transport[i]
                 IN  /\ Len(events) = Min(resolvedConfig'.batchSize, Len(queue'))
                     /\ events = SubSeq(queue', 1, Len(events))
           /\ ( /\ effects'.op = "complete"
                /\ effects'.outcome = "resolved"
                /\ SliceTo(queue, Len(effects'.completed)) = effects'.completed ) =>
                 queue' = SliceFrom(queue, Len(effects'.completed))
           /\ ( /\ RecordCreated
                /\ Len(queue') >= resolvedConfig.batchSize
                /\ resolvedConfig.endpoint # ""
                /\ canSendBatchToEndpoint(resolvedConfig,
                                          SliceTo(queue', resolvedConfig.batchSize)) ) =>
                 IF isFlushing
                 THEN flushQueuedAfterCurrent' /\ effects'.transport = <<>>
                 ELSE /\ effects'.transport = <<SliceTo(queue', resolvedConfig.batchSize)>>
                      /\ isFlushing'
                      /\ calls' = <<[events |-> effects'.transport[1]]>> ]_vars
    /\ []( ( /\ resolvedConfig.batchSize = 1
             /\ nextId = 3
             /\ queue = <<>>
             /\ calls = <<>> ) =>
              /\ Len(effects.delivered) = 2
              /\ \A i \in 1..2 : Len(effects.delivered[i]) = 1
                                  /\ effects.delivered[i][1].id = i )

\* C24 witness: with batchSize = 1 two records were created and the transport
\* has served two calls of one record each, the second just now.
C24_Witness ==
    /\ resolvedConfig.batchSize = 1
    /\ nextId = 3
    /\ queue = <<>>
    /\ calls = <<>>
    /\ effects.op = "complete"
    /\ Len(effects.delivered) = 2
    /\ effects.completed = effects.delivered[2]
    /\ effects.delivered[1][1].id = 1
    /\ effects.delivered[2][1].id = 2

\* the records of a sequence of batches, one after the other
RECURSIVE Concat(_)
Concat(batches) == IF Len(batches) = 0 THEN <<>> ELSE Head(batches) \o Concat(Tail(batches))

\* records in the order they were created: createId hands out 1, 2, 3, ...
InTrackOrder(records, first) == \A i \in 1..Len(records) : records[i].id = first + i - 1

\* C25 (delivery order).  With no overflow eviction and no beacon send, the
\* batches of the transport calls that succeeded so far, one after the other,
\* are the records tracked first, in track order, each once; the queue holds
\* the records tracked after them, in track order; every batch handed to the
\* transport holds consecutive records in track order.
C25_DeliveryOrder ==
    LET deliveredRecords == Concat(effects.delivered)
    IN  /\ InTrackOrder(deliveredRecords, 1)
        /\ InTrackOrder(queue, Len(deliveredRecords) + 1)
        /\ Len(deliveredRecords) + Len(queue) = nextId - 1
        /\ \A i \in 1..Len(calls) : InTrackOrder(calls[i].events, calls[i].events[1].id)
        /\ \A i \in 1..Len(effects.transport) :
              InTrackOrder(effects.transport[i], Len(deliveredRecords) + 1)

\* C25 witness: three records were delivered by more than one successful
\* transport call, and the batches together are the three records in order.
C25_Witness ==
    /\ effects.op = "complete"
    /\ effects.outcome = "resolved"
    /\ Len(effects.delivered) >= 2
    /\ Len(Concat(effects.delivered)) = 3
    /\ InTrackOrder(Concat(effects.delivered), 1)
    /\ queue = <<>>

\* the record with this id is in the queue
Queued(id) == \E i \in 1..Len(queue) : queue[i].id = id

\* the record with this id was in the batch of a transport call that succeeded
Delivered(id) == \E r \in Range(Concat(effects.delivered)) : r.id = id

\* once no more events are tracked the queue becomes empty, and stays empty
QueueDrains == <>[](Len(queue) = 0)

\* C26 (eventual delivery).  The client staying enabled and not destroyed, with
\* a secure endpoint, the timer firing again and again and transport calls
\* succeeding sooner or later, every record in the queue is eventually delivered
\* or evicted by overflow, and the queue is eventually empty for good.
C26_EventualDelivery ==
    /\ \A id \in 1..MaxTracks :
          Queued(id) ~> (Delivered(id) \/ id \in effects.evicted)
    /\ QueueDrains

\* C27 (periodic timer).  In every reachable state exactly one interval timer
\* is armed, with the current flushIntervalMs, if the client is enabled and not
\* destroyed, and none is armed otherwise.  An updateConfig that disables the
\* client leaves no timer armed, and one that enables it again arms one timer
\* with the flushIntervalMs of the new configuration.
C27_PeriodicTimer ==
    /\ []( IF resolvedConfig.enabled /\ ~isDestroyed
           THEN timers = 1 /\ flushTimer = resolvedConfig.flushIntervalMs
           ELSE timers = 0 /\ flushTimer = 0 )
    /\ [][ (effects'.op = "updateConfig" /\ ~isDestroyed) =>
              /\ (resolvedConfig.enabled /\ ~resolvedConfig'.enabled) =>
                    (timers' = 0 /\ flushTimer' = 0)
              /\ (~resolvedConfig.enabled /\ resolvedConfig'.enabled) =>
                    (timers' = 1 /\ flushTimer' = resolvedConfig'.flushIntervalMs) ]_vars

\* C27 witness: updateConfig has just been called on a client whose interval is
\* no longer the default one; the client is enabled, and one timer is armed
\* with that interval.
C27_Witness ==
    /\ effects.op = "updateConfig"
    /\ resolvedConfig.enabled
    /\ ~isDestroyed
    /\ resolvedConfig.flushIntervalMs = 1000
    /\ timers = 1
    /\ flushTimer = 1000

\* C28 (disabled client).  In every step taken while enabled is false, track
\* and reportError append nothing to the queue and nothing is sent: no batch is
\* handed to the transport and none to the beacon primitive, whatever the queue
\* holds.
C28_DisabledClient ==
    [][ (~resolvedConfig.enabled /\ ~resolvedConfig'.enabled) =>
          /\ Range(queue') \subseteq Range(queue)
          /\ nextId' = nextId
          /\ effects'.transport = <<>>
          /\ effects'.beacon = <<>> ]_vars

\* the error records of `records` with this fingerprint that are not older than
\* the window of any such record after them
ReplayedOccurrences(records, fingerprint, cfg) ==
    LET Occurrence(i) == records[i].kind = "error" /\ records[i].error = fingerprint
    IN  { i \in 1..Len(records) :
            /\ Occurrence(i)
            /\ \A j \in i..Len(records) :
                  Occurrence(j) =>
                      records[i].timestamp >=
                          records[j].timestamp - cfg.errorReporting.thresholdWindowMs }

\* C29 (replay does not trigger).  Constructing a client over a stored queue
\* invokes the threshold callback for none of the error records it loads,
\* however many they are, and leaves in the aggregate of each fingerprint the
\* loaded occurrences of it (those within the window of the later ones), which
\* is what getIssueReports counts.  They count towards later thresholds: the
\* first error reported after construction invokes the callback if, together
\* with the replayed occurrences within its window, it reaches thresholdCount.
\* The callback is invoked only by a track or reportError that created an error
\* record, and for the fingerprint of that record.
C29_ReplayDoesNotTrigger ==
    [][ /\ effects'.op = "construct" =>
              /\ effects'.thresholds = <<>>
              /\ effects'.invoked = effects.invoked
              /\ \A fp \in Fingerprints :
                    buildIssueReport(issueAggregates', fp) =
                        Cardinality(ReplayedOccurrences(queue', fp, resolvedConfig'))
        /\ (effects.op = "construct" /\ RecordCreated /\ queue'[Len(queue')].kind = "error") =>
              LET new == queue'[Len(queue')]
                  windowStart == new.timestamp - resolvedConfig.errorReporting.thresholdWindowMs
                  replayed == SelectSeq(issueAggregates[new.error].timestamps,
                                        LAMBDA at : at >= windowStart)
              IN  Len(replayed) + 1 >= resolvedConfig.errorReporting.thresholdCount =>
                      effects'.thresholds = <<[fingerprint |-> new.error,
                                               at |-> new.timestamp]>>
        /\ effects'.thresholds # <<>> =>
              /\ RecordCreated
              /\ queue'[Len(queue')].kind = "error"
              /\ effects'.thresholds = <<[fingerprint |-> queue'[Len(queue')].error,
                                         at |-> queue'[Len(queue')].timestamp]>> ]_vars

\* C29 witness: a client was constructed over two stored error records with
\* the same fingerprint, as many as thresholdCount, within one window; the
\* callback was not invoked and the aggregate counts both.
C29_Witness ==
    /\ effects.op = "construct"
    /\ host.sessions > 1
    /\ effects.invoked = <<>>
    /\ Len(queue) >= resolvedConfig.errorReporting.thresholdCount
    /\ \A i \in 1..Len(queue) : queue[i].kind = "error" /\ queue[i].error = queue[1].error
    /\ buildIssueReport(issueAggregates, queue[1].error) = Len(queue)

\* the timestamps of the aggregate of a fingerprint that are not older than
\* now - windowMs, `now` being the time of the getIssueReports call of the step
RecentTimestamps(fingerprint) ==
    SelectSeq(issueAggregates[fingerprint].timestamps,
              LAMBDA t : t >= host'.now - resolvedConfig.errorReporting.thresholdWindowMs)

\* C30 (getIssueReports).  The call returns one report for every fingerprint
\* whose aggregate has a timestamp not older than now - windowMs and none for
\* the others; the count of a report is the number of those timestamps, its
\* firstSeen their minimum and its lastSeen their maximum; the aggregates with
\* no such timestamp are removed; the reports come by descending count, those
\* of equal count by descending lastSeen.
C30_GetIssueReports ==
    [][ effects'.op = "getIssueReports" =>
          LET reports == effects'.reports
          IN  /\ \A fp \in Fingerprints :
                    Cardinality({i \in 1..Len(reports) : reports[i].fingerprint = fp}) =
                        (IF Len(RecentTimestamps(fp)) >= 1 THEN 1 ELSE 0)
              /\ \A i \in 1..Len(reports) :
                    LET recent == Range(RecentTimestamps(reports[i].fingerprint))
                    IN  /\ reports[i].count = Len(RecentTimestamps(reports[i].fingerprint))
                        /\ reports[i].firstSeen \in recent
                        /\ reports[i].lastSeen \in recent
                        /\ \A t \in recent : reports[i].firstSeen <= t /\ t <= reports[i].lastSeen
              /\ \A fp \in Fingerprints :
                    IF Len(RecentTimestamps(fp)) = 0
                    THEN issueAggregates'[fp] = NoIssueState
                    ELSE issueAggregates'[fp].timestamps = RecentTimestamps(fp)
              /\ \A i, j \in 1..Len(reports) :
                    i < j =>
                        \/ reports[i].count > reports[j].count
                        \/ /\ reports[i].count = reports[j].count
                           /\ reports[i].lastSeen >= reports[j].lastSeen ]_vars

\* C30 witness: getIssueReports has returned two reports, the one with more
\* occurrences first although the other was seen later.
C30_Witness ==
    /\ effects.op = "getIssueReports"
    /\ Len(effects.reports) = 2
    /\ effects.reports[1].count > effects.reports[2].count
    /\ effects.reports[1].firstSeen < effects.reports[1].lastSeen
    /\ effects.reports[1].lastSeen < effects.reports[2].lastSeen

\* inputs of the throwing-callback scenarios: an endpoint, thresholds of one and
\* two occurrences, batch sizes on both sides of the queue length
ThrowingConfigs ==
    { [ source |-> "app", endpoint |-> "https://example.com/collect", batchSize |-> n,
        errorReporting |-> [thresholdCount |-> c, thresholdWindowMs |-> 1000] ] :
      n \in {1, 2, 3}, c \in {1, 2} }

\* The throwing-callback scenarios: the configured onThresholdReached throws
\* whenever it is called.
InitThrowing ==
    \E config \in ThrowingConfigs :
        InitOn([Browser(MaxReports) EXCEPT !.callbackThrows = TRUE], config, EmptyStorage)

NextThrowing ==
    \/ \E report \in ErrorReports : ReportError(report)
    \/ \E event \in ReportingEvents : Track(event)
    \/ \E i \in 1..Len(calls), succeeded \in BOOLEAN : Complete(i, succeeded)

SpecThrowing == InitThrowing /\ [][NextThrowing]_vars

\* C31 (throwing threshold callback).  When the threshold callback throws during
\* a reportError or track call, the call does not throw; the exception is the
\* first thing handed to onError; the new record is the tail of the queue and the
\* storage key holds the serialized queue; and the batch-size check still runs:
\* with the queue at batchSize or more, the head batch goes to the transport or,
\* a call being outstanding, the pending-retry flag is set.
C31_ThrowingThresholdCallback ==
    [][ ( /\ RecordCreated
          /\ host.callbackThrows
          /\ effects'.thresholds # <<>> ) =>
          /\ ~effects'.threw
          /\ effects'.errors # <<>>
          /\ Head(effects'.errors) = "threshold-callback"
          /\ queue' # <<>>
          /\ queue'[Len(queue')].id = nextId
          /\ storage'[resolvedConfig.storageKey] = Persisted(queue')
          /\ Len(queue') >= resolvedConfig.batchSize =>
                IF isFlushing
                THEN flushQueuedAfterCurrent' /\ effects'.transport = <<>>
                ELSE /\ effects'.transport = <<SliceTo(queue', resolvedConfig.batchSize)>>
                     /\ isFlushing' ]_vars

\* C31 witness: a call whose threshold callback threw went on to hand the head
\* batch, the new record in it, to the transport.
C31_Witness ==
    /\ host.callbackThrows
    /\ effects.op \in {"track", "reportError"}
    /\ effects.thresholds # <<>>
    /\ effects.errors = <<"threshold-callback">>
    /\ effects.transport # <<>>
    /\ queue # <<>>
    /\ queue[Len(queue)].id = nextId - 1

\* inputs of the numeric-option scenarios: integers on both sides of zero, and
\* the options that take a number, each given the same number
IntegerOptions == {-1, 0, 3}

NumberUpdates(value) ==
    { [batchSize |-> value],
      [flushIntervalMs |-> value, batchSize |-> value, maxQueueSize |-> value],
      [ errorReporting |->
          [ maxMessageLength |-> value, maxStackLength |-> value,
            maxComponentStackLength |-> value, maxContextDepth |-> value,
            maxContextBreadth |-> value, maxTagCount |-> value,
            thresholdCount |-> value, thresholdWindowMs |-> value ] ] }

NumberConfigs(value) ==
    { [source |-> "app", maxQueueSize |-> value,
       errorReporting |-> [thresholdWindowMs |-> value]] }

\* The numeric-option scenarios: the client is constructed and reconfigured with
\* integers, fractions and non-finite numbers.
InitNumbers ==
    \/ \E number \in IntegerOptions : \E config \in NumberConfigs(number) :
          InitFrom(config, EmptyStorage, MaxTracks)
    \/ \E number \in Fractions : \E config \in NumberConfigs(number) :
          InitFrom(config, EmptyStorage, MaxTracks)
    \/ \E number \in NonFiniteNumbers : \E config \in NumberConfigs(number) :
          InitFrom(config, EmptyStorage, MaxTracks)

NextNumbers ==
    \/ \E number \in IntegerOptions : \E nextConfig \in NumberUpdates(number) :
          UpdateConfig(nextConfig)
    \/ \E number \in Fractions : \E nextConfig \in NumberUpdates(number) :
          UpdateConfig(nextConfig)
    \/ \E number \in NonFiniteNumbers : \E nextConfig \in NumberUpdates(number) :
          UpdateConfig(nextConfig)
    \/ \E event \in TrackEvents : Track(event)

SpecNumbers == InitNumbers /\ [][NextNumbers]_vars

PositiveInteger(value) == value \in Int /\ value > 0

\* what updateConfig({batchSize: value}) and
\* updateConfig({errorReporting: {maxMessageLength: value}}) resolve, from here
ResolvedBatchSize(value) ==
    resolveConfig(SpreadConfig(resolvedConfig, [batchSize |-> value]),
                  resolvedConfig).batchSize

ResolvedMessageLength(value) ==
    resolveConfig(SpreadConfig(resolvedConfig,
                               [errorReporting |-> [maxMessageLength |-> value]]),
                  resolvedConfig).errorReporting.maxMessageLength

\* C32 (numeric options).  After construction and after every updateConfig,
\* flushIntervalMs, batchSize and maxQueueSize are positive integers and every
\* numeric error-reporting option is a positive integer at or above its floor
\* (thresholdCount, maxContextDepth, maxContextBreadth and maxTagCount 1,
\* thresholdWindowMs 1000, maxMessageLength 16, the stack lengths 32); no
\* updateConfig with such a number throws; and a non-finite number, or a number
\* whose floor is not positive, resolves to the default of the option.
C32_NumericOptions ==
    /\ PositiveInteger(resolvedConfig.flushIntervalMs)
    /\ PositiveInteger(resolvedConfig.batchSize)
    /\ PositiveInteger(resolvedConfig.maxQueueSize)
    /\ \A option \in DOMAIN resolvedConfig.errorReporting
                       \ {"enabled", "secureEndpointOnly", "redactKeys"} :
          PositiveInteger(resolvedConfig.errorReporting[option])
    /\ resolvedConfig.errorReporting.thresholdCount >= 1
    /\ resolvedConfig.errorReporting.thresholdWindowMs >= 1000
    /\ resolvedConfig.errorReporting.maxMessageLength >= 16
    /\ resolvedConfig.errorReporting.maxStackLength >= 32
    /\ resolvedConfig.errorReporting.maxComponentStackLength >= 32
    /\ resolvedConfig.errorReporting.maxContextDepth >= 1
    /\ resolvedConfig.errorReporting.maxContextBreadth >= 1
    /\ resolvedConfig.errorReporting.maxTagCount >= 1
    /\ effects.op = "updateConfig" => ~effects.threw
    /\ \A value \in NonFiniteNumbers :
          /\ ResolvedBatchSize(value) = DEFAULT_BATCH_SIZE
          /\ ResolvedMessageLength(value) = DEFAULT_ERROR_MESSAGE_LENGTH
    /\ \A value \in {f \in Fractions : f[1] < f[2]} :
          /\ ResolvedBatchSize(value) = DEFAULT_BATCH_SIZE
          /\ ResolvedMessageLength(value) = DEFAULT_ERROR_MESSAGE_LENGTH
    /\ \A value \in {n \in IntegerOptions : n <= 0} :
          /\ ResolvedBatchSize(value) = DEFAULT_BATCH_SIZE
          /\ ResolvedMessageLength(value) = DEFAULT_ERROR_MESSAGE_LENGTH

\* C32 witness: updateConfig was given 5/2 for every option: batchSize is 2 and
\* the options with a floor above 2 are at their floor.
C32_Witness ==
    /\ effects.op = "updateConfig"
    /\ resolvedConfig.batchSize = 2
    /\ resolvedConfig.errorReporting.thresholdCount = 2
    /\ resolvedConfig.errorReporting.thresholdWindowMs = 1000
    /\ resolvedConfig.errorReporting.maxMessageLength = 16
    /\ resolvedConfig.errorReporting.maxStackLength = 32

\* inputs of the channel scenarios: clients of either channel, with and without
\* a defaultContext that holds analyticsChannel, and events with and without a
\* context that holds it
ChannelConfigs ==
    { [ source |-> "app", endpoint |-> "https://example.com/analytics", batchSize |-> 2,
        channel |-> c ] : c \in Channels }
    \cup { [ source |-> "app", endpoint |-> "https://example.com/analytics", batchSize |-> 2,
             channel |-> c, defaultContext |-> [analyticsChannel |-> "frontend"] ] :
           c \in Channels }
    \cup { [ source |-> "app", endpoint |-> "https://example.com/analytics", batchSize |-> 2,
             channel |-> "frontend", injectChannelContext |-> FALSE ] }

ChannelEvents ==
    { [component |-> "Header", action |-> "open", timestamp |-> 1000],
      [ component |-> "JobRunner", action |-> "completed", timestamp |-> 1000,
        context |-> [step |-> "persist"] ],
      [ component |-> "JobRunner", action |-> "completed", timestamp |-> 1000,
        context |-> [analyticsChannel |-> "worker"] ] }

\* The channel scenarios: events are tracked through trackFrontend and
\* trackBackend on clients of either channel.
InitChannels == \E config \in ChannelConfigs : InitFrom(config, EmptyStorage, MaxTracks)

NextChannels ==
    \/ \E event \in ChannelEvents : TrackFrontend(event)
    \/ \E event \in ChannelEvents : TrackBackend(event)
    \/ Flush
    \/ \E i \in 1..Len(calls), succeeded \in BOOLEAN : Complete(i, succeeded)

SpecChannels == InitChannels /\ [][NextChannels]_vars

\* the step is a trackFrontend or trackBackend call that created a record
PinnedCreated ==
    /\ effects'.op \in {"trackFrontend", "trackBackend"}
    /\ nextId' = nextId + 1

\* the event of the step has a context that defines analyticsChannel
EventDefinesChannel ==
    /\ Has(effects'.event, "context")
    /\ Has(effects'.event.context, "analyticsChannel")

\* the part of the channel claims that does not depend on who defines
\* analyticsChannel: the pinned channel, the payload header, the event's own value
ChannelPinned ==
    /\ PinnedCreated =>
          LET record == queue'[Len(queue')]
          IN  /\ record.id = nextId
              /\ record.channel = IF effects'.op = "trackFrontend"
                                  THEN "frontend" ELSE "backend"
              /\ EventDefinesChannel =>
                    record.context.analyticsChannel = effects'.event.context.analyticsChannel
    /\ \A i \in 1..Len(effects'.payloads) :
          /\ effects'.payloads[i].channel = resolvedConfig'.channel
          /\ effects'.payloads[i].runtime = resolvedConfig'.runtime
          /\ effects'.payloads[i].events = effects'.transport[i]

\* C33 as stated (channel pinning).  A record created by trackFrontend has
\* channel frontend and one created by trackBackend channel backend, whatever
\* the channel of the client; the channel and runtime at the top of every
\* payload are the client's; and, channel injection being on, the
\* analyticsChannel of the record's context is the record's channel unless the
\* event context defines it.
C33_ChannelPinning ==
    [][ /\ ChannelPinned
        /\ ( /\ PinnedCreated
             /\ resolvedConfig.injectChannelContext
             /\ ~EventDefinesChannel ) =>
              LET record == queue'[Len(queue')]
              IN  record.context.analyticsChannel = record.channel ]_vars

\* C33 amended (channel pinning).  As C33, except that the analyticsChannel of
\* the record's context is the record's channel unless the event context or the
\* configured defaultContext defines it; when only defaultContext defines it,
\* the record carries the value of defaultContext.
C33_ChannelPinningUnlessDefined ==
    [][ /\ ChannelPinned
        /\ ( /\ PinnedCreated
             /\ resolvedConfig.injectChannelContext
             /\ ~EventDefinesChannel ) =>
              LET record == queue'[Len(queue')]
              IN  record.context.analyticsChannel =
                      IF Has(resolvedConfig.defaultContext, "analyticsChannel")
                      THEN resolvedConfig.defaultContext.analyticsChannel
                      ELSE record.channel ]_vars

\* C33 witness: a backend client handed the transport one payload, headed
\* backend, that holds a frontend record and then a backend record whose
\* context carries the injected analyticsChannel backend.
C33_Witness ==
    /\ resolvedConfig.channel = "backend"
    /\ ~Has(resolvedConfig.defaultContext, "analyticsChannel")
    /\ Len(effects.payloads) = 1
    /\ effects.payloads[1].channel = "backend"
    /\ Len(effects.payloads[1].events) = 2
    /\ effects.payloads[1].events[1].channel = "frontend"
    /\ effects.payloads[1].events[2].channel = "backend"
    /\ effects.payloads[1].events[2].context.analyticsChannel = "backend"
    /\ effects.payloads[1].events[1].context.analyticsChannel = "frontend"

\* inputs of the two-client scenarios: the configurations of the collision
\* test, with an endpoint so that flushes reach the transport
ClientConfigs ==
    { [ source |-> "app", channel |-> c, batchSize |-> 2,
        endpoint |-> "https://example.com/collect" ] : c \in Channels }

\* createLocalSpaceAnalyticsClient(config) for a second client on the same page
NewPeer(config) ==
    LET cfg == resolveConfig(config, <<>>)
        restored == SliceLast(readQueue(storage, cfg.storageKey, cfg), cfg.maxQueueSize)
    IN  [ present |-> TRUE, resolvedConfig |-> cfg, queue |-> restored,
          isFlushing |-> FALSE, flushQueuedAfterCurrent |-> FALSE, calls |-> <<>>,
          issueAggregates |-> replayIssues([fp \in Fingerprints |-> NoIssueState],
                                           cfg, restored).aggregates,
          nextId |-> 1 ]

\* the state of the second client at the start of one of its operations
PeerCore ==
    [Core EXCEPT !.queue = host.peer.queue, !.isFlushing = host.peer.isFlushing,
                 !.flushQueuedAfterCurrent = host.peer.flushQueuedAfterCurrent,
                 !.calls = host.peer.calls,
                 !.issueAggregates = host.peer.issueAggregates,
                 !.nextId = host.peer.nextId]

\* the second client ends an operation in state s: only its closure state and
\* the storage change
PeerCommit(s, op) ==
    /\ host' = [host EXCEPT !.peer.queue = s.queue, !.peer.isFlushing = s.isFlushing,
                            !.peer.flushQueuedAfterCurrent = s.flushQueuedAfterCurrent,
                            !.peer.calls = s.calls,
                            !.peer.issueAggregates = s.issueAggregates,
                            !.peer.nextId = s.nextId]
    /\ storage' = s.storage
    /\ effects' = [NoEffects EXCEPT !.op = op, !.transport = s.transport,
                                    !.errors = s.errors, !.payloads = s.payloads,
                                    !.invoked = effects.invoked,
                                    !.delivered = effects.delivered,
                                    !.evicted = effects.evicted]
    /\ UNCHANGED <<resolvedConfig, queue, flushTimer, timers, isFlushing,
                   flushQueuedAfterCurrent, isDestroyed, issueAggregates, hooksAttached,
                   calls, nextId>>

PeerOps == {"peer.construct", "peer.track", "peer.flush", "peer.complete"}

\* a second client is created with the source of the first and the other channel
ConstructPeer(config) ==
    /\ ~host.peer.present
    /\ config.source = resolvedConfig.source
    /\ config.channel # resolvedConfig.channel
    /\ host' = [host EXCEPT !.peer = NewPeer(config), !.sessions = @ + 1]
    /\ effects' = [NoEffects EXCEPT !.op = "peer.construct", !.invoked = effects.invoked,
                                    !.delivered = effects.delivered,
                                    !.evicted = effects.evicted]
    /\ UNCHANGED <<resolvedConfig, queue, storage, flushTimer, timers, isFlushing,
                   flushQueuedAfterCurrent, isDestroyed, issueAggregates, hooksAttached,
                   calls, nextId>>

PeerTrack(event) ==
    /\ host.peer.present
    /\ host.peer.nextId <= host.capacity
    /\ PeerCommit(track(PeerCore, host.peer.resolvedConfig, FALSE, event, FALSE),
                  "peer.track")

PeerFlush ==
    /\ host.peer.present
    /\ PeerCommit(flush(PeerCore, host.peer.resolvedConfig, FALSE), "peer.flush")

PeerComplete(i, succeeded) ==
    /\ host.peer.present
    /\ i \in 1..Len(host.peer.calls)
    /\ PeerCommit(flushContinuation([PeerCore EXCEPT !.calls = RemoveAt(@, i)],
                                    host.peer.resolvedConfig, FALSE, host.peer.calls[i],
                                    succeeded, FALSE),
                  "peer.complete")

\* The two-client scenarios: a client, then a second one of the other channel
\* on the same page, and track calls, flushes and completions on both in any
\* order.
InitClients == \E config \in ClientConfigs : InitFrom(config, EmptyStorage, MaxTracks)

NextClients ==
    \/ \E event \in TrackEvents : Track(event)
    \/ Flush
    \/ \E i \in 1..Len(calls), succeeded \in BOOLEAN : Complete(i, succeeded)
    \/ \E config \in ClientConfigs : ConstructPeer(config)
    \/ \E event \in TrackEvents : PeerTrack(event)
    \/ PeerFlush
    \/ \E i \in 1..Len(host.peer.calls), succeeded \in BOOLEAN : PeerComplete(i, succeeded)

SpecClients == InitClients /\ [][NextClients]_vars

\* C34 (channel-aware default storage keys).  Two clients created with the same
\* source, different channels and no explicit storage key use different storage
\* keys; the second client does not restore the records of the first; no track
\* call, flush or completion on one client changes the queue of the other or
\* what the storage holds under the key of the other.
C34_ChannelAwareKeys ==
    /\ [](host.peer.present =>
             host.peer.resolvedConfig.storageKey # resolvedConfig.storageKey)
    /\ [][ /\ effects'.op = "peer.construct" =>
                 \A i \in 1..Len(host'.peer.queue) :
                     host'.peer.queue[i].channel = host'.peer.resolvedConfig.channel
           /\ (host.peer.present /\ effects'.op \in PeerOps) =>
                 /\ queue' = queue
                 /\ storage'[resolvedConfig.storageKey] = storage[resolvedConfig.storageKey]
           /\ (host.peer.present /\ effects'.op \notin PeerOps) =>
                 /\ host'.peer = host.peer
                 /\ storage'[host.peer.resolvedConfig.storageKey]
                        = storage[host.peer.resolvedConfig.storageKey] ]_vars

\* C34 witness: both clients have had a batch of two delivered and tracked a
\* third record, and each storage key holds the queue of its own client.
C34_Witness ==
    /\ host.peer.present
    /\ effects.op = "peer.track"
    /\ Len(queue) = 1
    /\ nextId = 4
    /\ host.peer.nextId = 4
    /\ Len(host.peer.queue) = 1
    /\ storage[resolvedConfig.storageKey] = Stringify(queue)
    /\ storage[host.peer.resolvedConfig.storageKey] = Stringify(host.peer.queue)

\* inputs of the context scenarios: report contexts that are a plain object, an
\* object that holds itself, two objects that hold each other, one object under
\* two sibling keys, one object twice in an array, and a denylisted key
Object(entries) == [array |-> FALSE, entries |-> entries]

Array(items) == [array |-> TRUE, entries |-> [i \in 1..Len(items) |-> [key |-> "", value |-> items[i]]]]

Entry(key, value) == [key |-> key, value |-> value]

PlainContext ==
    [ root |-> "context",
      heap |-> [context |-> Object(<<Entry("step", Str("persist"))>>)] ]

SelfContext ==
    [ root |-> "context",
      heap |-> [context |-> Object(<<Entry("self", Ref("context"))>>)] ]

CycleContext ==
    [ root |-> "context",
      heap |-> [ context |-> Object(<<Entry("details", Ref("inner"))>>),
                 inner |-> Object(<<Entry("step", Str("persist")),
                                    Entry("peer", Ref("other"))>>),
                 other |-> Object(<<Entry("back", Ref("inner"))>>) ] ]

SiblingContext ==
    [ root |-> "context",
      heap |-> [ context |-> Object(<<Entry("first", Ref("inner")),
                                      Entry("second", Ref("inner"))>>),
                 inner |-> Object(<<Entry("step", Str("persist"))>>) ] ]

ArrayContext ==
    [ root |-> "context",
      heap |-> [ context |-> Object(<<Entry("list", Ref("items"))>>),
                 items |-> Array(<<Ref("inner"), Ref("inner")>>),
                 inner |-> Object(<<Entry("step", Str("persist"))>>) ] ]

ReportContexts == {PlainContext, SelfContext, CycleContext, SiblingContext, ArrayContext}

ContextReports ==
    { [ boundary |-> "CheckoutBoundary", message |-> "Payment failed", timestamp |-> 1000,
        context |-> c ] : c \in ReportContexts }

ContextConfigs ==
    { [ source |-> "app", endpoint |-> "https://example.com/collect", batchSize |-> 2,
        errorReporting |-> [maxContextDepth |-> d] ] : d \in {2, 4} }

\* The context scenarios: errors are reported with contexts that are object
\* graphs.
InitContexts == \E config \in ContextConfigs : InitFrom(config, EmptyStorage, MaxReports)

NextContexts ==
    \/ \E report \in ContextReports : ReportError(report)
    \/ Flush
    \/ \E i \in 1..Len(calls), succeeded \in BOOLEAN : Complete(i, succeeded)

SpecContexts == InitContexts /\ [][NextContexts]_vars

RECURSIVE SanitizedOnPath(_, _, _, _, _)

\* a value sanitized with the circular marker for exactly the objects that are
\* among their own ancestors on the path from the values of the context
SanitizedOnPath(heap, value, resolvedErrorReporting, depth, ancestors) ==
    IF value.t = "string" THEN Str(value.v)
    ELSE IF value.v \in ancestors THEN Str("[circular]")
    ELSE IF depth >= resolvedErrorReporting.maxContextDepth THEN Str("[truncated]")
    ELSE LET object == heap[value.v]
             entries == SliceTo(object.entries, resolvedErrorReporting.maxContextBreadth)
         IN  Json(IF object.array THEN "array" ELSE "object",
                  [ i \in 1..Len(entries) |->
                      [ key |-> entries[i].key,
                        value |->
                            IF /\ ~object.array
                               /\ shouldRedactContextKey(entries[i].key,
                                                         resolvedErrorReporting)
                            THEN Str(REDACTED_VALUE)
                            ELSE SanitizedOnPath(heap, entries[i].value,
                                                 resolvedErrorReporting, depth + 1,
                                                 ancestors \cup {value.v}) ] ])

\* the step is a reportError call that created a record from a report with a
\* context
ContextReported ==
    /\ effects'.op = "reportError"
    /\ nextId' = nextId + 1
    /\ Has(effects'.event, "context")

\* C35 (circular marking).  Sanitizing a report context ends for every context,
\* cyclic ones included, and in the record every value of the context is
\* sanitized with the circular marker only where an object or array is among
\* its own ancestors on the path: an object held under two sibling keys, or
\* twice in one array, is sanitized in full in both places.
C35_CircularMarking ==
    [][ ContextReported =>
          LET context == effects'.event.context
              entries == context.heap[context.root].entries
              record == queue'[Len(queue')]
          IN  \A i \in 1..Len(entries) :
                  record.context[entries[i].key] =
                      SanitizedOnPath(context.heap, entries[i].value,
                                      resolvedConfig.errorReporting, 1, {}) ]_vars

\* C36 (flush scheduler states).  In every reachable state the pending-retry
\* flag implies the in-flight flag, and the in-flight flag is set exactly while
\* a transport call is outstanding.  When a transport call completes, with
\* success or failure, the pending-retry flag is clear afterwards and the
\* in-flight flag is clear unless the completion started the follow-up call.
C36_SchedulerStates ==
    /\ [](flushQueuedAfterCurrent => isFlushing)
    /\ [](isFlushing <=> calls # <<>>)
    /\ [][ effects'.op = "complete" =>
             /\ ~flushQueuedAfterCurrent'
             /\ isFlushing' <=> effects'.transport # <<>>
             /\ Len(calls') = Len(effects'.transport) ]_vars

\* C36 witness: a transport call failed while a retry was pending; the
\* continuation cleared both flags and started the follow-up call.
C36_Witness ==
    /\ effects.op = "complete"
    /\ effects.outcome = "rejected"
    /\ effects.transport # <<>>
    /\ isFlushing
    /\ ~flushQueuedAfterCurrent
    /\ Len(calls) = 1

\* inputs of the gate scenarios: a queue longer than a batch, an endpoint that
\* fails the secure-endpoint gate, and updates that lift and restore the refusal
GateConfigs ==
    { [ source |-> "app", endpoint |-> "http://example.com", batchSize |-> n,
        maxQueueSize |-> 3 ] : n \in {1, 2} }

GateUpdates ==
    { [endpoint |-> e] : e \in {"http://example.com", "https://example.com/collect"} }
    \cup { [errorReporting |-> [secureEndpointOnly |-> b]] : b \in BOOLEAN }

\* The gate scenarios: interaction and error records are tracked for an insecure
\* endpoint and flushes are requested explicitly and by the timer.
InitGate == \E config \in GateConfigs : InitFrom(config, EmptyStorage, MaxTracks)

NextGate ==
    \/ \E event \in ReportingEvents : Track(event)
    \/ Flush
    \/ TimerTick
    \/ \E i \in 1..Len(calls), succeeded \in BOOLEAN : Complete(i, succeeded)
    \/ \E nextConfig \in GateUpdates : UpdateConfig(nextConfig)

SpecGate == InitGate /\ [][NextGate]_vars

\* the batch-time gate refuses the head batch of the queue as it is
HeadRefused ==
    /\ resolvedConfig.endpoint # ""
    /\ ~canSendBatchToEndpoint(resolvedConfig, SliceTo(queue, resolvedConfig.batchSize))

\* C37 (gate refusal).  A flush, explicit or by the timer, whose head batch the
\* batch-time gate refuses reports the refusal and changes neither the queue,
\* the storage, the outstanding calls, the in-flight flag nor the pending-retry
\* flag.  As long as the gate refuses the head batch, no step that leaves the
\* configuration and the head batch as they are hands any record to the
\* transport, the interaction records behind the refused batch included.
C37_GateRefusal ==
    [][ /\ ( /\ effects'.op \in {"flush", "timer"}
             /\ ~isDestroyed
             /\ resolvedConfig.enabled
             /\ ~isFlushing
             /\ HeadRefused ) =>
              /\ effects'.errors = <<"refused">>
              /\ queue' = queue
              /\ storage' = storage
              /\ calls' = calls
              /\ isFlushing' = isFlushing
              /\ flushQueuedAfterCurrent' = flushQueuedAfterCurrent
        /\ ( /\ HeadRefused
             /\ resolvedConfig' = resolvedConfig
             /\ SliceTo(queue', resolvedConfig.batchSize)
                    = SliceTo(queue, resolvedConfig.batchSize) ) =>
              effects'.transport = <<>> ]_vars

\* C37 witness: a flush was refused for a head batch that holds an error record
\* while an interaction record waits behind it, and nothing was handed to the
\* transport.
C37_Witness ==
    /\ effects.op \in {"flush", "timer"}
    /\ effects.errors = <<"refused">>
    /\ effects.transport = <<>>
    /\ ~isFlushing
    /\ Len(queue) > resolvedConfig.batchSize
    /\ HasErrorRecord(SliceTo(queue, resolvedConfig.batchSize))
    /\ queue[Len(queue)].kind = "interaction"
    /\ storage[resolvedConfig.storageKey] = Stringify(queue)

\* inputs of the redaction scenarios: a defaultContext with and without a
\* denylisted key, and reports without a context, with a plain context and with
\* contexts that differ only in the value under the denylisted key `password`
SecretContext(secret) ==
    [ root |-> "context",
      heap |-> [context |-> Object(<<Entry("step", Str("persist")),
                                     Entry("password", Str(secret))>>)] ]

Secrets == {"hunter2", "letmein"}

RedactionReports ==
    { [boundary |-> "CheckoutBoundary", message |-> "Payment failed", timestamp |-> 1000] }
    \cup { [ boundary |-> "CheckoutBoundary", message |-> "Payment failed",
             timestamp |-> 1000, context |-> c ] :
             c \in {PlainContext} \cup {SecretContext(secret) : secret \in Secrets} }

RedactionConfigs ==
    { [ source |-> "app", endpoint |-> "https://example.com/collect", batchSize |-> 2,
        defaultContext |-> d ] :
        d \in { [region |-> Str("eu")], [authToken |-> Str("abc123")] }
              \cup { [password |-> Str(secret)] : secret \in Secrets } }

\* The redaction scenarios: errors are reported on clients whose defaultContext
\* and whose reports hold values under denylisted keys.
InitRedaction == \E config \in RedactionConfigs : InitFrom(config, EmptyStorage, MaxReports)

NextRedaction ==
    \/ \E report \in RedactionReports : ReportError(report)
    \/ Flush
    \/ \E i \in 1..Len(calls), succeeded \in BOOLEAN : Complete(i, succeeded)

SpecRedaction == InitRedaction /\ [][NextRedaction]_vars

\* the reports differ at most in the values their contexts hold under
\* denylisted top-level keys
DifferInRedactedValues(report, other) ==
    /\ Has(report, "context") /\ Has(other, "context")
    /\ [report EXCEPT !.context = <<>>] = [other EXCEPT !.context = <<>>]
    /\ LET entries == report.context.heap[report.context.root].entries
           others == other.context.heap[other.context.root].entries
       IN  /\ Len(entries) = Len(others)
           /\ \A i \in 1..Len(entries) :
                  /\ entries[i].key = others[i].key
                  /\ \/ entries[i] = others[i]
                     \/ shouldRedactContextKey(entries[i].key, resolvedConfig.errorReporting)

\* C38 (redaction of denylisted keys).  In the record a reportError call
\* enqueues, every top-level context key that matches the redact-key denylist
\* holds the redaction placeholder, whether the key came from the context of the
\* report or from the defaultContext of the client, and a report that differs
\* only in the value under such a key gives the same context value for the key.
C38_DenylistedKeysRedacted ==
    [][ ReportCreates =>
          LET record == queue'[Len(queue')]
          IN  \A key \in DOMAIN record.context :
                  shouldRedactContextKey(key, resolvedConfig.errorReporting) =>
                      /\ record.context[key] = Str(REDACTED_VALUE)
                      /\ \A other \in RedactionReports :
                             DifferInRedactedValues(effects'.event, other) =>
                                 createMergedContext(
                                     resolvedConfig, record.channel,
                                     sanitizeErrorContext(other, resolvedConfig.errorReporting)
                                 )[key] = record.context[key] ]_vars

\* C39 (error reporting switched off).  While errorReporting.enabled is false,
\* no track, trackFrontend, trackBackend or reportError call, track calls with
\* kind error and embedded error details included, changes an issue aggregate
\* or invokes the threshold callback.
C39_SwitchedOffNoAggregation ==
    [][ ( /\ effects'.op \in RecordOps
          /\ ~resolvedConfig.errorReporting.enabled ) =>
            /\ issueAggregates' = issueAggregates
            /\ effects'.thresholds = <<>> ]_vars

\* C40 (destroy during an outstanding transport call).  destroy() leaves the
\* outstanding call as it is and starts no call.  When the call settles on the
\* destroyed client, success still evicts its batch and rewrites the persisted
\* snapshot, failure still invokes the error callback and keeps the queue, and
\* in both cases no follow-up transport invocation is started, the in-flight
\* and pending-retry flags being clear afterwards.
C40_DestroyDuringCall ==
    /\ [][ (effects'.op = "destroy" /\ ~isDestroyed) =>
             /\ isDestroyed'
             /\ calls' = calls
             /\ queue' = queue
             /\ isFlushing' = isFlushing
             /\ flushQueuedAfterCurrent' = flushQueuedAfterCurrent
             /\ effects'.transport = <<>> ]_vars
    /\ [][ (effects'.op = "complete" /\ isDestroyed) =>
             /\ effects'.transport = <<>>
             /\ calls' = <<>>
             /\ ~isFlushing'
             /\ ~flushQueuedAfterCurrent'
             /\ effects'.outcome = "resolved" =>
                    /\ queue' = SliceFrom(queue, Len(effects'.completed))
                    /\ storage'[resolvedConfig.storageKey] = Persisted(queue')
                    /\ effects'.errors = <<>>
             /\ effects'.outcome = "rejected" =>
                    /\ queue' = queue
                    /\ storage' = storage
                    /\ effects'.errors = <<"transport">> ]_vars

\* C40 witness: the call that was outstanding when the client was destroyed
\* succeeded; its batch is gone from the queue and from storage, the records
\* tracked while it was in flight are still queued, and no call was started.
C40_Witness ==
    /\ isDestroyed
    /\ effects.op = "complete"
    /\ effects.outcome = "resolved"
    /\ effects.completed # <<>>
    /\ effects.transport = <<>>
    /\ calls = <<>>
    /\ ~isFlushing
    /\ Len(queue) > 0
    /\ queue[1].id > effects.completed[Len(effects.completed)].id
    /\ storage[resolvedConfig.storageKey] = Stringify(queue)

====
